---- MODULE Spec2Model ----
(***************************************************************************)
(* A state-machine model of the BingoBackend web application: its tables   *)
(* (users, profiles, cards, squares, contacts) and the routed request      *)
(* handlers that read and write them.  One action is one HTTP request,     *)
(* handled to completion; `response' keeps the last request and what was   *)
(* answered to it.                                                         *)
(***************************************************************************)
EXTENDS Integers, Sequences, FiniteSets, TLC

(***************************************************************************)
(* Bounds of the model.                                                    *)
(***************************************************************************)
MaxUsers == 2
MaxCards == 2
MaxDay == 2
MaxContacts == 2
MaxSquareDeletes == 1
MaxProfiles == 3

(***************************************************************************)
(* Program constants.                                                      *)
(***************************************************************************)
MinNum == 24
MaxNum == 24
SerializerSquares == 24
PaginateBy == 8
IndexSlice == 5

\* ProfileListView.paginate_by
ProfilePaginateBy == 8

VARIABLES users, profiles, cards, squares, contacts, nextpk, today, response

vars == <<users, profiles, cards, squares, contacts, nextpk, today, response>>
db == <<users, profiles, cards, squares, contacts, nextpk>>

(***************************************************************************)
(* Requests, URLs, responses.                                              *)
(***************************************************************************)
\* request.user of a request without a session (AnonymousUser)
Anonymous == 0

Requesters == {Anonymous} \cup DOMAIN users

is_authenticated(u) == u \in DOMAIN users

reverse(name, pk) == [route |-> name, pk |-> pk]

NoUrl == reverse("", 0)

\* LoginRequiredMixin.login_url of the card views, '/profile/permission-denied/'
CardsLoginUrl == reverse("auth_extension:permission_denied", 0)

\* LoginRequiredMixin.login_url of the profile views, '/profile/login-required/'
ProfileLoginUrl == reverse("auth_extension:unauthorized", 0)

NoErrors == "<none>"

Resp(view, viewer, pk, status, url, cs, ss, ps, err) ==
    [view |-> view, viewer |-> viewer, pk |-> pk, status |-> status,
     url |-> url, cards |-> cs, squares |-> ss, profiles |-> ps,
     errors |-> err, context |-> <<>>, shuffled |-> <<>>]

Min(a, b) == IF a < b THEN a ELSE b

\* queryset[:k]
Slice(s, k) == SubSeq(s, 1, Min(k, Len(s)))

\* the orders in which a query may return the rows S
Orderings(S) ==
    {s \in [1..Cardinality(S) -> S] : \A i, j \in DOMAIN s : i # j => s[i] # s[j]}

\* rows in primary-key order
RECURSIVE ByPk(_)
ByPk(S) ==
    IF S = {} THEN <<>>
    ELSE LET m == CHOOSE x \in S : \A y \in S : x <= y
         IN <<m>> \o ByPk(S \ {m})

Uniform(n, t) == [i \in 1..n |-> t]

(***************************************************************************)
(* The tables.                                                             *)
(***************************************************************************)
Init ==
    /\ users = <<>>
    /\ profiles = <<>>
    /\ cards = <<>>
    /\ squares = <<>>
    /\ contacts = <<>>
    /\ nextpk = [user |-> 1, profile |-> 1, card |-> 1, square |-> 1, contact |-> 1]
    /\ today = 1
    /\ response = Resp("", Anonymous, 0, 0, NoUrl, <<>>, <<>>, <<>>, NoErrors)

\* card.squares.all()
SquaresOf(sqs, c) == {s \in DOMAIN sqs : sqs[s].card = c}

\* user.profile (the reverse side of UserProfile.user)
ProfilesOf(ps, u) == {p \in DOMAIN ps : ps[p].user = u}

Without(f, S) == [x \in DOMAIN f \ S |-> f[x]]

\* BingoCard row as BingoCard.objects.create / ModelForm.save insert it
BingoCard(title, free_space, creator, private) ==
    [title |-> title, free_space |-> free_space, creator |-> creator,
     private |-> private, created_date |-> today]

\* BingoCardSquare rows for the texts of one card, inserted in order
NewSquares(texts, card) ==
    [pk \in nextpk.square .. nextpk.square + Len(texts) - 1 |->
        [text |-> texts[pk - nextpk.square + 1], card |-> card]]

(***************************************************************************)
(* Users and profiles: django.contrib.auth's User rows, the post_save      *)
(* receivers of auth_extension.models, and the UserProfile table.          *)
(***************************************************************************)
\* User.set_password / create_user store a hash of the password, never the text
make_password(raw) == [hashed |-> TRUE, text |-> raw]

\* the password column of User.objects.create(username=, email=): empty, no hash
NoPassword == [hashed |-> FALSE, text |-> ""]

User(username, email, password, staff) ==
    [username |-> username, email |-> email, password |-> password,
     is_staff |-> staff, date_joined |-> today]

\* a UserProfile row with the model's defaults
UserProfile(user) ==
    [user |-> user, private |-> FALSE, website |-> <<>>, about_me |-> "",
     created_date |-> today]

\* a plain ForeignKey in the place of the OneToOneField: nothing is refused
OneToOne_unconstrained(ps, user) == TRUE

\* UserProfile.user is a OneToOneField: a second row for the user is refused
OneToOne(ps, user) == ProfilesOf(ps, user) = {}

\* receiver create_user_profile, run by post_save of a created User:
\* the profiles table after it, or "IntegrityError"
create_user_profile(ps, pk, user) ==
    IF OneToOne(ps, user) THEN ps @@ (pk :> UserProfile(user)) ELSE ps

\* the user's profile (user.profile); only when there is one
ProfileOf(ps, u) == CHOOSE p \in ProfilesOf(ps, u) : TRUE

\* UnicodeUsernameValidator: letters, digits and @ . + - _ only (no space)
ValidUsername(name) == \A i \in DOMAIN name : name[i] # " "

\* EmailValidator: a user part, one "@", a domain part
ValidEmail(email) ==
    \E i \in 2..(Len(email) - 1) :
        /\ email[i] = "@"
        /\ \A j \in DOMAIN email : email[j] = "@" => j = i

\* AUTH_PASSWORD_VALIDATORS as the registration tests show them
CommonPasswords == {"password"}

validate_password(password) == password \notin CommonPasswords

\* RegistrationForm field validation: the names of the fields with errors
RegistrationForm_field_errors(username, email, password, confirmation) ==
    {f \in {"username", "email", "password", "password_confirmation"} :
        \/ f = "username" /\ \/ username = <<>>
                              \/ ~ValidUsername(username)
                              \/ \E u \in DOMAIN users : users[u].username = username
        \/ f = "email" /\ email # <<>> /\ ~ValidEmail(email)
        \/ f = "password" /\ password = ""
        \/ f = "password_confirmation" /\ confirmation = ""}

\* RegistrationForm.clean: "KeyError" when a password field is not in
\* cleaned_data, else the form-wide error it raises, or NoErrors
RegistrationForm_clean(username, email, password, confirmation) ==
    LET bad == RegistrationForm_field_errors(username, email, password, confirmation)
    IN IF "password" \in bad \/ "password_confirmation" \in bad THEN "KeyError"
       ELSE IF password # confirmation THEN "Passwords entered do not match."
       ELSE IF ~validate_password(password) THEN "This password is too common."
       ELSE NoErrors

\* RegistrationView.post with RegistrationForm.save: a valid form inserts the
\* User (post_save creates its profile), sets the password, and then inserts
\* a UserProfile for the same user
RegistrationView_post(username, email, password, confirmation) ==
    LET bad == RegistrationForm_field_errors(username, email, password, confirmation)
        err == RegistrationForm_clean(username, email, password, confirmation)
        u == nextpk.user
        p == nextpk.profile
        ps1 == create_user_profile(profiles, p, u)
        rows == users @@ (u :> User(username, email, make_password(password), FALSE))
    IN /\ nextpk.user <= MaxUsers
       /\ nextpk.profile < MaxProfiles
       /\ IF err = "KeyError"
          THEN /\ response' = Resp("RegistrationView.post", Anonymous, 0, 500,
                                   NoUrl, <<>>, <<>>, <<>>, err)
               /\ UNCHANGED <<db, today>>
          ELSE IF bad # {} \/ err # NoErrors
          THEN /\ response' = Resp("RegistrationView.post", Anonymous, 0, 200,
                                   NoUrl, <<>>, <<>>, <<>>,
                                   IF err # NoErrors THEN err
                                   ELSE CHOOSE f \in bad : TRUE)
               /\ UNCHANGED <<db, today>>
          ELSE /\ users' = rows
               /\ IF OneToOne(ps1, u)
                  THEN /\ profiles' = ps1 @@ ((p + 1) :> UserProfile(u))
                       /\ nextpk' = [nextpk EXCEPT !.user = u + 1, !.profile = p + 2]
                       /\ response' = Resp("RegistrationView.post", u, 0, 302,
                                reverse("auth_extension:profile_edit", p),
                                <<>>, <<>>, <<>>, NoErrors)
                  ELSE /\ profiles' = ps1
                       /\ nextpk' = [nextpk EXCEPT !.user = u + 1, !.profile = p + 1]
                       /\ response' = Resp("RegistrationView.post", Anonymous, 0, 500,
                                NoUrl, <<>>, <<>>, <<>>, "IntegrityError")
               /\ UNCHANGED <<cards, squares, contacts, today>>

(***************************************************************************)
(* Cards: the web views of cards/views.py and the forms of cards/forms.py. *)
(* A posted square formset is a record: texts (one per form, TOTAL_FORMS   *)
(* of them), initial (INITIAL_FORMS), ids (the id of each initial form)    *)
(* and fk (the posted card key of the forms, 0 when none is posted).       *)
(***************************************************************************)
\* BingoCardForm.is_valid: title, free_space and creator are required, and
\* creator must be the pk of a User
BingoCardForm_is_valid(title, free_space, creator) ==
    /\ title # ""
    /\ free_space # ""
    /\ creator \in DOMAIN users

\* BingoSquareFormset(request.POST).is_valid(): the formset is bound to a new,
\* unsaved BingoCard; 24 forms are required (validate_min, validate_max), none
\* of the first min_num may be empty, an initial form's id must be a square,
\* and a posted card key must equal the parent's pk, which is None
BingoSquareFormset_is_valid(fs) ==
    /\ Len(fs.texts) <= MaxNum
    /\ Len(fs.texts) >= MinNum
    /\ \A i \in DOMAIN fs.texts : fs.texts[i] # ""
    /\ \A i \in DOMAIN fs.ids : fs.ids[i] \in DOMAIN squares
    /\ fs.fk = 0

\* BingoSquareFormset.save(): the initial forms carry new instances (their
\* ids are outside the empty queryset of the unsaved parent) and are skipped;
\* every extra form inserts a square of the card
BingoSquareFormset_save(fs, card) ==
    NewSquares(SubSeq(fs.texts, fs.initial + 1, Len(fs.texts)), card)

\* CardCreateView.post -> form_valid, behind LoginRequiredMixin
CardCreateView_post(viewer, title, free_space, creator, private, fs) ==
    LET pk == nextpk.card
        new == IF BingoSquareFormset_is_valid(fs)
               THEN BingoSquareFormset_save(fs, pk) ELSE <<>>
    IN /\ nextpk.card <= MaxCards
       /\ IF ~is_authenticated(viewer)
          THEN /\ response' = Resp("CardCreateView.post", viewer, 0, 302,
                                   CardsLoginUrl, <<>>, <<>>, <<>>, NoErrors)
               /\ UNCHANGED <<db, today>>
          ELSE IF ~BingoCardForm_is_valid(title, free_space, creator)
          THEN /\ response' = Resp("CardCreateView.post", viewer, 0, 200,
                                   NoUrl, <<>>, <<>>, <<>>, "form")
               /\ UNCHANGED <<db, today>>
          ELSE \* with transaction.atomic(): no exception, both branches commit
               /\ cards' = cards @@ (pk :> BingoCard(title, free_space, creator, private))
               /\ squares' = squares @@ new
               /\ nextpk' = [nextpk EXCEPT !.card = pk + 1,
                                           !.square = @ + Cardinality(DOMAIN new)]
               /\ response' = Resp("CardCreateView.post", viewer, pk, 302,
                                   reverse("cards:card_detail", pk),
                                   <<>>, <<>>, <<>>,
                                   IF BingoSquareFormset_is_valid(fs)
                                   THEN NoErrors ELSE "square_formset")
               /\ UNCHANGED <<users, profiles, contacts, today>>

\* a CardUpdateView.post that, like CardCreateView, saves the card when the
\* form alone is valid
CardUpdateView_post_form_only(viewer, urlpk, title, free_space, creator, private, fs) ==
    LET pk == nextpk.card
        new == IF BingoSquareFormset_is_valid(fs)
               THEN BingoSquareFormset_save(fs, pk) ELSE <<>>
    IN /\ nextpk.card <= MaxCards
       /\ IF ~is_authenticated(viewer)
          THEN /\ response' = Resp("CardUpdateView.post", viewer, urlpk, 302,
                                   CardsLoginUrl, <<>>, <<>>, <<>>, NoErrors)
               /\ UNCHANGED <<db, today>>
          ELSE IF BingoCardForm_is_valid(title, free_space, creator)
          THEN /\ cards' = cards @@ (pk :> BingoCard(title, free_space, creator, private))
               /\ squares' = squares @@ new
               /\ nextpk' = [nextpk EXCEPT !.card = pk + 1,
                                           !.square = @ + Cardinality(DOMAIN new)]
               /\ response' = Resp("CardUpdateView.post", viewer, urlpk, 302,
                                   reverse("cards:card_detail", pk),
                                   <<>>, <<>>, <<>>, NoErrors)
               /\ UNCHANGED <<users, profiles, contacts, today>>
          ELSE /\ response' = Resp("CardUpdateView.post", viewer, urlpk, 200,
                                   NoUrl, <<>>, <<>>, <<>>, "form")
               /\ UNCHANGED <<db, today>>

\* CardUpdateView.post -> form_valid / form_invalid: the form is built with
\* self.object = None and the formset without an instance, so the pk of the
\* URL is not used and a valid POST saves a new card
CardUpdateView_post(viewer, urlpk, title, free_space, creator, private, fs) ==
    LET pk == nextpk.card
        new == BingoSquareFormset_save(fs, pk)
    IN /\ nextpk.card <= MaxCards
       /\ IF ~is_authenticated(viewer)
          THEN /\ response' = Resp("CardUpdateView.post", viewer, urlpk, 302,
                                   CardsLoginUrl, <<>>, <<>>, <<>>, NoErrors)
               /\ UNCHANGED <<db, today>>
          ELSE IF BingoCardForm_is_valid(title, free_space, creator)
                  /\ BingoSquareFormset_is_valid(fs)
          THEN /\ cards' = cards @@ (pk :> BingoCard(title, free_space, creator, private))
               /\ squares' = squares @@ new
               /\ nextpk' = [nextpk EXCEPT !.card = pk + 1,
                                           !.square = @ + Cardinality(DOMAIN new)]
               /\ response' = Resp("CardUpdateView.post", viewer, urlpk, 302,
                                   reverse("cards:card_detail", pk),
                                   <<>>, <<>>, <<>>, NoErrors)
               /\ UNCHANGED <<users, profiles, contacts, today>>
          ELSE /\ response' = Resp("CardUpdateView.post", viewer, urlpk, 200,
                                   NoUrl, <<>>, <<>>, <<>>, "form")
               /\ UNCHANGED <<db, today>>

\* queryset.order_by('-created_date'): most recent first, ties in any order
order_by_created_date_desc(S) ==
    {s \in Orderings(S) :
        \A i \in 1..(Len(s) - 1) :
            cards[s[i]].created_date >= cards[s[i + 1]].created_date}

\* a get_queryset without the filter on private
CardListView_get_queryset_unfiltered(viewer) ==
    order_by_created_date_desc(DOMAIN cards)

\* CardListView.get_queryset
CardListView_get_queryset(viewer) ==
    IF is_authenticated(viewer)
    THEN order_by_created_date_desc(DOMAIN cards)
    ELSE order_by_created_date_desc({c \in DOMAIN cards : cards[c].private = FALSE})

\* CardListView.get: the first page of the queryset
CardListView_get(viewer) ==
    /\ \E qs \in CardListView_get_queryset(viewer) :
          response' = Resp("CardListView.get", viewer, 0, 200, NoUrl,
                           Slice(qs, PaginateBy), <<>>, <<>>, NoErrors)
    /\ UNCHANGED <<db, today>>

\* MyCardListView.get, behind LoginRequiredMixin
MyCardListView_get(viewer) ==
    /\ IF ~is_authenticated(viewer)
       THEN response' = Resp("MyCardListView.get", viewer, 0, 302,
                             CardsLoginUrl, <<>>, <<>>, <<>>, NoErrors)
       ELSE \E qs \in order_by_created_date_desc(
                         {c \in DOMAIN cards : cards[c].creator = viewer}) :
              response' = Resp("MyCardListView.get", viewer, 0, 200, NoUrl,
                               qs, <<>>, <<>>, NoErrors)
    /\ UNCHANGED <<db, today>>

\* a CardDetailView.get without the test on card.private
CardDetailView_get_unguarded(viewer, pk) ==
    /\ IF pk \notin DOMAIN cards
       THEN response' = Resp("CardDetailView.get", viewer, pk, 404, NoUrl,
                             <<>>, <<>>, <<>>, NoErrors)
       ELSE response' = Resp("CardDetailView.get", viewer, pk, 200, NoUrl,
                             <<pk>>, ByPk(SquaresOf(squares, pk)), <<>>, NoErrors)
    /\ UNCHANGED <<db, today>>

\* list.insert(index, x), the index counted from 0: past the end of the
\* list, x is appended
list_insert(s, index, x) ==
    IF index >= Len(s) THEN Append(s, x)
    ELSE SubSeq(s, 1, index) \o <<x>> \o SubSeq(s, index + 1, Len(s))

Reverse(s) == [i \in DOMAIN s |-> s[Len(s) + 1 - i]]

\* random.shuffle(x): the orders x may be left in (two of them: as it was,
\* and reversed)
random_shuffle(x) == {x, Reverse(x)}

\* an entry of context['squares']: a square, or the text of the free space
\* (square 0)
ContextSquare(s) == [square |-> s, text |-> squares[s].text]

ContextFreeSpace(text) == [square |-> 0, text |-> text]

\* CardDetailView.get_context_data: random.shuffle is given a copy,
\* list(square_set), which is dropped; context['squares'] is a second
\* list(square_set), with the free space inserted at index 12
CardDetailView_get_context_data(pk, square_set, shuffled) ==
    list_insert([i \in DOMAIN square_set |-> ContextSquare(square_set[i])],
                12, ContextFreeSpace(cards[pk].free_space))

\* CardDetailView.get with get_context_data; get_object answers 404 for a pk
\* that is no card
CardDetailView_get(viewer, pk) ==
    /\ IF pk \notin DOMAIN cards
       THEN response' = Resp("CardDetailView.get", viewer, pk, 404, NoUrl,
                             <<>>, <<>>, <<>>, NoErrors)
       ELSE IF cards[pk].private /\ ~is_authenticated(viewer)
       THEN response' = Resp("CardDetailView.get", viewer, pk, 302,
                             reverse("auth_extension:unauthorized", 0),
                             <<>>, <<>>, <<>>, NoErrors)
       ELSE LET square_set == ByPk(SquaresOf(squares, pk))
            IN \E shuffled \in random_shuffle(square_set) :
                  response' = [Resp("CardDetailView.get", viewer, pk, 200, NoUrl,
                                    <<pk>>, square_set, <<>>, NoErrors)
                               EXCEPT !.context = CardDetailView_get_context_data(
                                                      pk, square_set, shuffled),
                                      !.shuffled = shuffled]
    /\ UNCHANGED <<db, today>>

\* home.views.IndexView.get_queryset: the 5 most recent cards
IndexView_get(viewer) ==
    /\ \E qs \in order_by_created_date_desc(
                    IF is_authenticated(viewer) THEN DOMAIN cards
                    ELSE {c \in DOMAIN cards : cards[c].private = FALSE}) :
          response' = Resp("IndexView.get", viewer, 0, 200, NoUrl,
                           Slice(qs, IndexSlice), <<>>, <<>>, NoErrors)
    /\ UNCHANGED <<db, today>>

(***************************************************************************)
(* The REST API of cards and squares: api/serializers.py, api/views.py,    *)
(* api/viewsets.py.                                                        *)
(***************************************************************************)
SAFE_METHODS == {"GET", "HEAD", "OPTIONS"}

\* permissions.IsAuthenticatedOrReadOnly.has_permission
IsAuthenticatedOrReadOnly(method, viewer) ==
    method \in SAFE_METHODS \/ is_authenticated(viewer)

\* api.permissions.IsOwnerOrReadOnly.has_object_permission
IsOwnerOrReadOnly(method, viewer, card) ==
    method \in SAFE_METHODS \/ cards[card].creator = viewer

MustHave24 == "Must have exactly 24 squares"

\* a validate_squares that tests only for too few items
validate_squares_min_only(value) ==
    IF Len(value) < SerializerSquares THEN MustHave24 ELSE NoErrors

\* BingoCardSerializer.validate_squares: the error it raises, or NoErrors
validate_squares(value) ==
    IF Len(value) # SerializerSquares THEN MustHave24 ELSE NoErrors

\* BingoCardSerializer.is_valid on the data keys: the errors by field.
\* title and squares are required, free_space has a default.  A field is
\* validated by its own serializer field first (squares: every item by
\* BingoCardSquareSerializer) and then by its validate_<field> method
BingoCardSerializer_errors(keys, title, free_space, sqs) ==
    [title |-> IF "title" \notin keys THEN "This field is required."
               ELSE IF title = "" THEN "This field may not be blank."
               ELSE NoErrors,
     free_space |-> IF "free_space" \in keys /\ free_space = ""
                    THEN "This field may not be blank."
                    ELSE NoErrors,
     squares |-> IF "squares" \notin keys THEN "This field is required."
                 ELSE IF \E i \in DOMAIN sqs : sqs[i] = ""
                 THEN "This field may not be blank."
                 ELSE validate_squares(sqs)]

NoFieldErrors == [title |-> NoErrors, free_space |-> NoErrors, squares |-> NoErrors]

\* a create that never reads the supplied free_space
BingoCardSerializer_create_default_free_space(keys, title, free_space, creator) ==
    BingoCard(title, "Free Space", creator, FALSE)

\* BingoCardSerializer.create
BingoCardSerializer_create(keys, title, free_space, creator) ==
    BingoCard(title,
              IF "free_space" \in keys THEN free_space ELSE "Free Space",
              creator, FALSE)

\* BingoCardList.post (BingoCardViewset.create) with perform_create
BingoCardList_post(viewer, keys, title, free_space, sqs) ==
    LET pk == nextpk.card
        errs == BingoCardSerializer_errors(keys, title, free_space, sqs)
        new == NewSquares(sqs, pk)
    IN /\ nextpk.card <= MaxCards
       /\ IF ~IsAuthenticatedOrReadOnly("POST", viewer)
          THEN /\ response' = Resp("BingoCardList.post", viewer, 0, 403, NoUrl,
                                   <<>>, <<>>, <<>>, NoFieldErrors)
               /\ UNCHANGED <<db, today>>
          ELSE IF errs # NoFieldErrors
          THEN /\ response' = Resp("BingoCardList.post", viewer, 0, 400, NoUrl,
                                   <<>>, <<>>, <<>>, errs)
               /\ UNCHANGED <<db, today>>
          ELSE /\ cards' = cards @@ (pk :> BingoCardSerializer_create(keys, title, free_space, viewer))
               /\ squares' = squares @@ new
               /\ nextpk' = [nextpk EXCEPT !.card = pk + 1,
                                           !.square = @ + Len(sqs)]
               /\ response' = Resp("BingoCardList.post", viewer, pk, 201, NoUrl,
                                   <<pk>>, ByPk(DOMAIN new), <<>>, NoFieldErrors)
               /\ UNCHANGED <<users, profiles, contacts, today>>

\* BingoCardList.get
BingoCardList_get(viewer) ==
    /\ response' = Resp("BingoCardList.get", viewer, 0, 200, NoUrl,
                        ByPk(DOMAIN cards), ByPk(DOMAIN squares), <<>>, NoErrors)
    /\ UNCHANGED <<db, today>>

\* BingoCardDetail.get
BingoCardDetail_get(viewer, pk) ==
    /\ IF pk \notin DOMAIN cards
       THEN response' = Resp("BingoCardDetail.get", viewer, pk, 404, NoUrl,
                             <<>>, <<>>, <<>>, NoErrors)
       ELSE response' = Resp("BingoCardDetail.get", viewer, pk, 200, NoUrl,
                             <<pk>>, ByPk(SquaresOf(squares, pk)), <<>>, NoErrors)
    /\ UNCHANGED <<db, today>>

\* an update that writes the first submitted text into every square
BingoCardSerializer_update_squares_first_text(pk, sqs) ==
    [s \in DOMAIN squares |->
        IF squares[s].card = pk THEN [squares[s] EXCEPT !.text = sqs[1]]
        ELSE squares[s]]

\* BingoCardSerializer.update: the squares table after it; the i-th square of
\* the card takes the i-th submitted text
BingoCardSerializer_update_squares(pk, sqs) ==
    LET own == ByPk(SquaresOf(squares, pk))
    IN [s \in DOMAIN squares |->
          IF squares[s].card = pk
          THEN LET i == CHOOSE j \in DOMAIN own : own[j] = s
               IN [squares[s] EXCEPT !.text = sqs[i]]
          ELSE squares[s]]

\* a BingoCardDetail.put with IsAuthenticatedOrReadOnly as its only permission
BingoCardDetail_put_any_user(viewer, pk, keys, title, free_space, sqs) ==
    LET errs == BingoCardSerializer_errors(keys, title, free_space, sqs)
    IN IF pk \notin DOMAIN cards
       THEN /\ response' = Resp("BingoCardDetail.put", viewer, pk, 404, NoUrl,
                                <<>>, <<>>, <<>>, NoFieldErrors)
            /\ UNCHANGED <<db, today>>
       ELSE IF ~IsAuthenticatedOrReadOnly("PUT", viewer)
       THEN /\ response' = Resp("BingoCardDetail.put", viewer, pk, 403, NoUrl,
                                <<>>, <<>>, <<>>, NoFieldErrors)
            /\ UNCHANGED <<db, today>>
       ELSE IF errs # NoFieldErrors
       THEN /\ response' = Resp("BingoCardDetail.put", viewer, pk, 400, NoUrl,
                                <<>>, <<>>, <<>>, errs)
            /\ UNCHANGED <<db, today>>
       ELSE /\ cards' = [cards EXCEPT
                            ![pk].title = title,
                            ![pk].free_space = IF "free_space" \in keys
                                               THEN free_space ELSE @]
            /\ squares' = BingoCardSerializer_update_squares(pk, sqs)
            /\ response' = Resp("BingoCardDetail.put", viewer, pk, 200, NoUrl,
                                <<pk>>, ByPk(SquaresOf(squares, pk)), <<>>,
                                NoFieldErrors)
            /\ UNCHANGED <<users, profiles, contacts, nextpk, today>>

\* BingoCardDetail.put (BingoCardViewset.update)
BingoCardDetail_put(viewer, pk, keys, title, free_space, sqs) ==
    LET errs == BingoCardSerializer_errors(keys, title, free_space, sqs)
    IN IF pk \notin DOMAIN cards
       THEN /\ response' = Resp("BingoCardDetail.put", viewer, pk, 404, NoUrl,
                                <<>>, <<>>, <<>>, NoFieldErrors)
            /\ UNCHANGED <<db, today>>
       ELSE IF ~IsAuthenticatedOrReadOnly("PUT", viewer)
               \/ ~IsOwnerOrReadOnly("PUT", viewer, pk)
       THEN /\ response' = Resp("BingoCardDetail.put", viewer, pk, 403, NoUrl,
                                <<>>, <<>>, <<>>, NoFieldErrors)
            /\ UNCHANGED <<db, today>>
       ELSE IF errs # NoFieldErrors
       THEN /\ response' = Resp("BingoCardDetail.put", viewer, pk, 400, NoUrl,
                                <<>>, <<>>, <<>>, errs)
            /\ UNCHANGED <<db, today>>
       ELSE /\ cards' = [cards EXCEPT
                            ![pk].title = title,
                            ![pk].free_space = IF "free_space" \in keys
                                               THEN free_space ELSE @]
            /\ squares' = BingoCardSerializer_update_squares(pk, sqs)
            /\ response' = Resp("BingoCardDetail.put", viewer, pk, 200, NoUrl,
                                <<pk>>, ByPk(SquaresOf(squares, pk)), <<>>,
                                NoFieldErrors)
            /\ UNCHANGED <<users, profiles, contacts, nextpk, today>>

\* BingoCardSerializer.is_valid with partial=True: only the supplied
\* fields are validated, none is required
BingoCardSerializer_partial_errors(keys, title, free_space, sqs) ==
    [title |-> IF "title" \in keys /\ title = ""
               THEN "This field may not be blank." ELSE NoErrors,
     free_space |-> IF "free_space" \in keys /\ free_space = ""
                    THEN "This field may not be blank." ELSE NoErrors,
     squares |-> IF "squares" \notin keys THEN NoErrors
                 ELSE IF \E i \in DOMAIN sqs : sqs[i] = ""
                 THEN "This field may not be blank."
                 ELSE validate_squares(sqs)]

\* BingoCardSerializer.update, the loop over validated_data.items(): the row
\* of the card after it
BingoCardSerializer_update(instance, keys, title, free_space) ==
    [instance EXCEPT
        !.title = IF "title" \in keys THEN title ELSE @,
        !.free_space = IF "free_space" \in keys THEN free_space ELSE @]

\* BingoCardDetail.patch (BingoCardViewset.partial_update); update reads
\* validated_data['squares'] before it changes anything
BingoCardDetail_patch(viewer, pk, keys, title, free_space, sqs) ==
    LET errs == BingoCardSerializer_partial_errors(keys, title, free_space, sqs)
    IN IF pk \notin DOMAIN cards
       THEN /\ response' = Resp("BingoCardDetail.patch", viewer, pk, 404, NoUrl,
                                <<>>, <<>>, <<>>, NoFieldErrors)
            /\ UNCHANGED <<db, today>>
       ELSE IF ~IsAuthenticatedOrReadOnly("PATCH", viewer)
               \/ ~IsOwnerOrReadOnly("PATCH", viewer, pk)
       THEN /\ response' = Resp("BingoCardDetail.patch", viewer, pk, 403, NoUrl,
                                <<>>, <<>>, <<>>, NoFieldErrors)
            /\ UNCHANGED <<db, today>>
       ELSE IF errs # NoFieldErrors
       THEN /\ response' = Resp("BingoCardDetail.patch", viewer, pk, 400, NoUrl,
                                <<>>, <<>>, <<>>, errs)
            /\ UNCHANGED <<db, today>>
       ELSE IF "squares" \notin keys
       THEN /\ response' = Resp("BingoCardDetail.patch", viewer, pk, 500, NoUrl,
                                <<>>, <<>>, <<>>,
                                [NoFieldErrors EXCEPT !.squares = "KeyError"])
            /\ UNCHANGED <<db, today>>
       ELSE /\ cards' = [cards EXCEPT
                            ![pk] = BingoCardSerializer_update(@, keys, title, free_space)]
            /\ squares' = BingoCardSerializer_update_squares(pk, sqs)
            /\ response' = Resp("BingoCardDetail.patch", viewer, pk, 200, NoUrl,
                                <<pk>>, ByPk(SquaresOf(squares, pk)), <<>>,
                                NoFieldErrors)
            /\ UNCHANGED <<users, profiles, contacts, nextpk, today>>

\* a delete of cards that leaves their squares
DeleteCards_no_cascade(S) ==
    /\ cards' = Without(cards, S)
    /\ squares' = squares

\* on_delete=models.CASCADE of BingoCardSquare.card
DeleteCards(S) ==
    /\ cards' = Without(cards, S)
    /\ squares' = Without(squares, {s \in DOMAIN squares : squares[s].card \in S})

\* BingoCardDetail.delete (BingoCardViewset.destroy)
BingoCardDetail_delete(viewer, pk) ==
    IF pk \notin DOMAIN cards
    THEN /\ response' = Resp("BingoCardDetail.delete", viewer, pk, 404, NoUrl,
                             <<>>, <<>>, <<>>, NoErrors)
         /\ UNCHANGED <<db, today>>
    ELSE IF ~IsAuthenticatedOrReadOnly("DELETE", viewer)
            \/ ~IsOwnerOrReadOnly("DELETE", viewer, pk)
    THEN /\ response' = Resp("BingoCardDetail.delete", viewer, pk, 403, NoUrl,
                             <<>>, <<>>, <<>>, NoErrors)
         /\ UNCHANGED <<db, today>>
    ELSE /\ DeleteCards({pk})
         /\ response' = Resp("BingoCardDetail.delete", viewer, pk, 204, NoUrl,
                             <<>>, <<>>, <<>>, NoErrors)
         /\ UNCHANGED <<users, profiles, contacts, nextpk, today>>

\* the cards whose title the serialized squares S carry (field card)
CardsOfSquares(S) == {squares[s].card : s \in S}

\* BingoCardSquareList.get
BingoCardSquareList_get(viewer) ==
    /\ response' = Resp("BingoCardSquareList.get", viewer, 0, 200, NoUrl,
                        ByPk(CardsOfSquares(DOMAIN squares)),
                        ByPk(DOMAIN squares), <<>>, NoErrors)
    /\ UNCHANGED <<db, today>>

\* BingoCardSquareList.post: card is a read-only field, and perform_create
\* passes creator=, which BingoCardSquare does not have: the create raises
BingoCardSquareList_post(viewer, text) ==
    /\ response' = Resp("BingoCardSquareList.post", viewer, 0,
                        IF ~IsAuthenticatedOrReadOnly("POST", viewer) THEN 403
                        ELSE IF text = "" THEN 400
                        ELSE 500,
                        NoUrl, <<>>, <<>>, <<>>, NoErrors)
    /\ UNCHANGED <<db, today>>

\* BingoCardSquareDetail.get
BingoCardSquareDetail_get(viewer, pk) ==
    /\ IF pk \notin DOMAIN squares
       THEN response' = Resp("BingoCardSquareDetail.get", viewer, pk, 404, NoUrl,
                             <<>>, <<>>, <<>>, NoErrors)
       ELSE response' = Resp("BingoCardSquareDetail.get", viewer, pk, 200, NoUrl,
                             <<squares[pk].card>>, <<pk>>, <<>>, NoErrors)
    /\ UNCHANGED <<db, today>>

\* BingoCardSquareDetail.put: text is the only writable field
BingoCardSquareDetail_put(viewer, pk, text) ==
    IF pk \notin DOMAIN squares
    THEN /\ response' = Resp("BingoCardSquareDetail.put", viewer, pk, 404, NoUrl,
                             <<>>, <<>>, <<>>, NoErrors)
         /\ UNCHANGED <<db, today>>
    ELSE IF ~IsAuthenticatedOrReadOnly("PUT", viewer)
    THEN /\ response' = Resp("BingoCardSquareDetail.put", viewer, pk, 403, NoUrl,
                             <<>>, <<>>, <<>>, NoErrors)
         /\ UNCHANGED <<db, today>>
    ELSE IF text = ""
    THEN /\ response' = Resp("BingoCardSquareDetail.put", viewer, pk, 400, NoUrl,
                             <<>>, <<>>, <<>>, "text")
         /\ UNCHANGED <<db, today>>
    ELSE /\ squares' = [squares EXCEPT ![pk].text = text]
         /\ response' = Resp("BingoCardSquareDetail.put", viewer, pk, 200, NoUrl,
                             <<squares[pk].card>>, <<pk>>, <<>>, NoErrors)
         /\ UNCHANGED <<users, profiles, cards, contacts, nextpk, today>>

\* BingoCardSquareDetail.delete
BingoCardSquareDetail_delete(viewer, pk) ==
    IF pk \notin DOMAIN squares
    THEN /\ response' = Resp("BingoCardSquareDetail.delete", viewer, pk, 404, NoUrl,
                             <<>>, <<>>, <<>>, NoErrors)
         /\ UNCHANGED <<db, today>>
    ELSE IF ~IsAuthenticatedOrReadOnly("DELETE", viewer)
    THEN /\ response' = Resp("BingoCardSquareDetail.delete", viewer, pk, 403, NoUrl,
                             <<>>, <<>>, <<>>, NoErrors)
         /\ UNCHANGED <<db, today>>
    ELSE /\ Cardinality(SquaresOf(squares, squares[pk].card)) + MaxSquareDeletes > MaxNum
         /\ squares' = Without(squares, {pk})
         /\ response' = Resp("BingoCardSquareDetail.delete", viewer, pk, 204, NoUrl,
                             <<>>, <<>>, <<>>, NoErrors)
         /\ UNCHANGED <<users, profiles, cards, contacts, nextpk, today>>

(***************************************************************************)
(* Profiles: the views of auth_extension/views.py, ProfileEditForm, and    *)
(* the user and profile endpoints of the REST API.  A website is a tuple   *)
(* of parts, the scheme first when it has one.                             *)
(***************************************************************************)
HasProfile(u) == ProfilesOf(profiles, u) # {}

\* a get_redirect_url without the except branch: a user without a profile
\* is sent to the login page
LoginRedirectView_get_no_create(viewer) ==
    /\ IF is_authenticated(viewer) /\ HasProfile(viewer)
       THEN response' = Resp("LoginRedirectView.get", viewer, 0, 301,
                             reverse("auth_extension:profile_edit",
                                     ProfileOf(profiles, viewer)),
                             <<>>, <<>>, <<>>, NoErrors)
       ELSE response' = Resp("LoginRedirectView.get", viewer, 0, 301,
                             reverse("registration:auth_login", 0),
                             <<>>, <<>>, <<>>, NoErrors)
    /\ UNCHANGED <<db, today>>

\* LoginRedirectView.get (RedirectView, permanent): get_redirect_url
LoginRedirectView_get(viewer) ==
    LET p == nextpk.profile
    IN IF ~is_authenticated(viewer)
       THEN /\ response' = Resp("LoginRedirectView.get", viewer, 0, 301,
                                reverse("registration:auth_login", 0),
                                <<>>, <<>>, <<>>, NoErrors)
            /\ UNCHANGED <<db, today>>
       ELSE IF HasProfile(viewer)
       THEN /\ response' = Resp("LoginRedirectView.get", viewer, 0, 301,
                                reverse("auth_extension:profile_edit",
                                        ProfileOf(profiles, viewer)),
                                <<>>, <<>>, <<>>, NoErrors)
            /\ UNCHANGED <<db, today>>
       ELSE \* except UserProfile.DoesNotExist: UserProfile.objects.create
            /\ nextpk.profile < MaxProfiles
            /\ profiles' = create_user_profile(profiles, p, viewer)
            /\ nextpk' = [nextpk EXCEPT !.profile = p + 1]
            /\ response' = Resp("LoginRedirectView.get", viewer, 0, 301,
                                reverse("auth_extension:profile_edit", p),
                                <<>>, <<>>, <<>>, NoErrors)
            /\ UNCHANGED <<users, cards, squares, contacts, today>>

\* UserProfile.get_absolute_url
get_absolute_url(pk) == reverse("userprofile-detail", pk)

\* a get_redirect_url without the privacy test
ProfileRedirectView_get_redirect_url_open(userprofile_pk, pk) ==
    get_absolute_url(pk)

\* ProfileRedirectView.get_redirect_url(pk) for the profile of the viewer
\* userprofile_pk, pk being a profile
ProfileRedirectView_get_redirect_url(userprofile_pk, pk) ==
    IF ~profiles[pk].private THEN get_absolute_url(pk)
    ELSE IF pk = userprofile_pk THEN get_absolute_url(pk)
    ELSE reverse("auth_extension:permission_denied", 0)

\* ProfileRedirectView.get: dispatch reads request.user.profile, then
\* LoginRequiredMixin, then RedirectView.get (permanent)
ProfileRedirectView_get(viewer, pk) ==
    /\ IF is_authenticated(viewer) /\ ~HasProfile(viewer)
       THEN response' = Resp("ProfileRedirectView.get", viewer, pk, 500, NoUrl,
                             <<>>, <<>>, <<>>, "RelatedObjectDoesNotExist")
       ELSE IF ~is_authenticated(viewer)
       THEN response' = Resp("ProfileRedirectView.get", viewer, pk, 302,
                             ProfileLoginUrl, <<>>, <<>>, <<>>, NoErrors)
       ELSE IF pk \notin DOMAIN profiles
       THEN response' = Resp("ProfileRedirectView.get", viewer, pk, 500, NoUrl,
                             <<>>, <<>>, <<>>, "DoesNotExist")
       ELSE response' = Resp("ProfileRedirectView.get", viewer, pk, 301,
                             ProfileRedirectView_get_redirect_url(
                                 ProfileOf(profiles, viewer), pk),
                             <<>>, <<>>, <<>>, NoErrors)
    /\ UNCHANGED <<db, today>>

\* ProfileView.get (LoginRequiredMixin, DetailView)
ProfileView_get(viewer, pk) ==
    /\ IF ~is_authenticated(viewer)
       THEN response' = Resp("ProfileView.get", viewer, pk, 302,
                             ProfileLoginUrl, <<>>, <<>>, <<>>, NoErrors)
       ELSE IF pk \notin DOMAIN profiles
       THEN response' = Resp("ProfileView.get", viewer, pk, 404, NoUrl,
                             <<>>, <<>>, <<>>, NoErrors)
       ELSE response' = Resp("ProfileView.get", viewer, pk, 200, NoUrl,
                             <<>>, <<>>, <<pk>>, NoErrors)
    /\ UNCHANGED <<db, today>>

\* forms.URLField.to_python and URLValidator: no blank inside, and the
\* scheme http:// is put before a value that has none
URLField_valid(website) == \A i \in DOMAIN website : website[i] # " "

URLField_clean(website) ==
    IF website = <<>> THEN <<>>
    ELSE IF website[1] \in {"http://", "https://"} THEN website
    ELSE <<"http://">> \o website

\* a save that assigns every submitted value, the empty ones too
ProfileEditForm_save_overwrite(pk, website, private, about_me) ==
    LET p == IF HasProfile(pk) THEN ProfileOf(profiles, pk) ELSE nextpk.profile
        row == IF HasProfile(pk) THEN profiles[p] ELSE UserProfile(pk)
        new == [row EXCEPT !.website = URLField_clean(website),
                           !.private = private,
                           !.about_me = about_me]
    IN /\ profiles' = [x \in DOMAIN profiles \cup {p} |->
                          IF x = p THEN new ELSE profiles[x]]
       /\ nextpk' = [nextpk EXCEPT !.profile = IF HasProfile(pk) THEN @ ELSE @ + 1]

\* ProfileEditForm.save(pk) on a valid form: get_or_create the profile of
\* user pk, then assign the fields that were filled in
ProfileEditForm_save(pk, website, private, about_me) ==
    LET p == IF HasProfile(pk) THEN ProfileOf(profiles, pk) ELSE nextpk.profile
        row == IF HasProfile(pk) THEN profiles[p] ELSE UserProfile(pk)
        new == [row EXCEPT
                  !.website = IF URLField_clean(website) # <<>>
                              THEN URLField_clean(website) ELSE @,
                  !.private = private,
                  !.about_me = IF about_me # "" THEN about_me ELSE @]
    IN /\ profiles' = [x \in DOMAIN profiles \cup {p} |->
                          IF x = p THEN new ELSE profiles[x]]
       /\ nextpk' = [nextpk EXCEPT !.profile = IF HasProfile(pk) THEN @ ELSE @ + 1]

\* form.save(pk) on a ProfileEditForm bound to the data, as a caller other
\* than the view calls it: the errors of an invalid form are returned before
\* anything is read; User.objects.get(pk=pk) raises for a pk that is no user
ProfileEditForm_save_call(pk, website, private, about_me) ==
    IF ~URLField_valid(website)
    THEN /\ response' = Resp("ProfileEditForm.save", Anonymous, pk, 0, NoUrl,
                             <<>>, <<>>, <<>>, "website")
         /\ UNCHANGED <<db, today>>
    ELSE IF pk \notin DOMAIN users
    THEN /\ response' = Resp("ProfileEditForm.save", Anonymous, pk, 0, NoUrl,
                             <<>>, <<>>, <<>>, "DoesNotExist")
         /\ UNCHANGED <<db, today>>
    ELSE /\ HasProfile(pk) \/ nextpk.profile <= MaxProfiles
         /\ ProfileEditForm_save(pk, website, private, about_me)
         /\ response' = Resp("ProfileEditForm.save", Anonymous, pk, 0, NoUrl,
                             <<>>, <<>>, <<>>, NoErrors)
         /\ UNCHANGED <<users, cards, squares, contacts, today>>

\* a ProfileEditView.post that saves the form for the user whose profile
\* the URL names
ProfileEditView_post_url_pk(viewer, urlpk, website, private, about_me) ==
    IF ~is_authenticated(viewer)
    THEN /\ response' = Resp("ProfileEditView.post", viewer, urlpk, 302,
                             ProfileLoginUrl, <<>>, <<>>, <<>>, NoErrors)
         /\ UNCHANGED <<db, today>>
    ELSE IF ~HasProfile(viewer)
    THEN /\ response' = Resp("ProfileEditView.post", viewer, urlpk, 500, NoUrl,
                             <<>>, <<>>, <<>>, "RelatedObjectDoesNotExist")
         /\ UNCHANGED <<db, today>>
    ELSE IF ~URLField_valid(website)
    THEN /\ response' = Resp("ProfileEditView.post", viewer, urlpk, 200, NoUrl,
                             <<>>, <<>>, <<>>, "website")
         /\ UNCHANGED <<db, today>>
    ELSE /\ ProfileEditForm_save(IF urlpk \in DOMAIN profiles
                                 THEN profiles[urlpk].user ELSE viewer,
                                 website, private, about_me)
         /\ response' = Resp("ProfileEditView.post", viewer, urlpk, 302,
                             reverse("auth_extension:login_redirect", 0),
                             <<>>, <<>>, <<>>, NoErrors)
         /\ UNCHANGED <<users, cards, squares, contacts, today>>

\* ProfileEditView.post: LoginRequiredMixin, get_form (get_initial reads
\* request.user.profile), form_valid / form_invalid.  The pk of the URL is
\* not read
ProfileEditView_post(viewer, urlpk, website, private, about_me) ==
    IF ~is_authenticated(viewer)
    THEN /\ response' = Resp("ProfileEditView.post", viewer, urlpk, 302,
                             ProfileLoginUrl, <<>>, <<>>, <<>>, NoErrors)
         /\ UNCHANGED <<db, today>>
    ELSE IF ~HasProfile(viewer)
    THEN /\ response' = Resp("ProfileEditView.post", viewer, urlpk, 500, NoUrl,
                             <<>>, <<>>, <<>>, "RelatedObjectDoesNotExist")
         /\ UNCHANGED <<db, today>>
    ELSE IF ~URLField_valid(website)
    THEN /\ response' = Resp("ProfileEditView.post", viewer, urlpk, 200, NoUrl,
                             <<>>, <<>>, <<>>, "website")
         /\ UNCHANGED <<db, today>>
    ELSE /\ ProfileEditForm_save(viewer, website, private, about_me)
         /\ response' = Resp("ProfileEditView.post", viewer, urlpk, 302,
                             reverse("auth_extension:login_redirect", 0),
                             <<>>, <<>>, <<>>, NoErrors)
         /\ UNCHANGED <<users, cards, squares, contacts, today>>

\* UserProfile.objects.order_by('-created_date')
profiles_by_created_date_desc(S) ==
    {s \in Orderings(S) :
        \A i \in 1..(Len(s) - 1) :
            profiles[s[i]].created_date >= profiles[s[i + 1]].created_date}

\* a get_queryset without the filter on private
ProfileListView_get_queryset_unfiltered(viewer) ==
    profiles_by_created_date_desc(DOMAIN profiles)

\* ProfileListView.get_queryset
ProfileListView_get_queryset(viewer) ==
    IF is_authenticated(viewer)
    THEN profiles_by_created_date_desc(DOMAIN profiles)
    ELSE profiles_by_created_date_desc(
             {p \in DOMAIN profiles : profiles[p].private = FALSE})

\* ProfileListView.get: the first page of the queryset
ProfileListView_get(viewer) ==
    /\ \E qs \in ProfileListView_get_queryset(viewer) :
          response' = Resp("ProfileListView.get", viewer, 0, 200, NoUrl,
                           <<>>, <<>>, Slice(qs, ProfilePaginateBy), NoErrors)
    /\ UNCHANGED <<db, today>>

\* str.lower of one character
lower(ch) == IF ch = "A" THEN "a" ELSE IF ch = "B" THEN "b" ELSE ch

\* username__istartswith
istartswith(name, prefix) ==
    /\ Len(prefix) <= Len(name)
    /\ \A i \in DOMAIN prefix : lower(name[i]) = lower(prefix[i])

\* suggest_profiles: the profiles of the users whose name starts with the
\* suggestion, most recently joined first; user.profile of a user without
\* one raises
suggest_profiles(viewer, starts_with) ==
    LET found == {u \in DOMAIN users : istartswith(users[u].username, starts_with)}
    IN /\ IF \E u \in found : ~HasProfile(u)
          THEN response' = Resp("suggest_profiles", viewer, 0, 500, NoUrl,
                                <<>>, <<>>, <<>>, "RelatedObjectDoesNotExist")
          ELSE \E us \in {s \in Orderings(found) :
                             \A i \in 1..(Len(s) - 1) :
                                users[s[i]].date_joined >= users[s[i + 1]].date_joined} :
                 response' = Resp("suggest_profiles", viewer, 0, 200, NoUrl,
                                  <<>>, <<>>,
                                  [i \in DOMAIN us |-> ProfileOf(profiles, us[i])],
                                  NoErrors)
       /\ UNCHANGED <<db, today>>

\* api.views.UserProfileList.get: no permission class, every profile
UserProfileList_get(viewer) ==
    /\ response' = Resp("UserProfileList.get", viewer, 0, 200, NoUrl,
                        <<>>, <<>>, ByPk(DOMAIN profiles), NoErrors)
    /\ UNCHANGED <<db, today>>

\* api.views.UserProfileDetail.get
UserProfileDetail_get(viewer, pk) ==
    /\ IF pk \notin DOMAIN profiles
       THEN response' = Resp("UserProfileDetail.get", viewer, pk, 404, NoUrl,
                             <<>>, <<>>, <<>>, NoErrors)
       ELSE response' = Resp("UserProfileDetail.get", viewer, pk, 200, NoUrl,
                             <<>>, <<>>, <<pk>>, NoErrors)
    /\ UNCHANGED <<db, today>>

\* api.views.UserProfileDetail.delete: no permission class
UserProfileDetail_delete(viewer, pk) ==
    IF pk \notin DOMAIN profiles
    THEN /\ response' = Resp("UserProfileDetail.delete", viewer, pk, 404, NoUrl,
                             <<>>, <<>>, <<>>, NoErrors)
         /\ UNCHANGED <<db, today>>
    ELSE /\ profiles' = Without(profiles, {pk})
         /\ response' = Resp("UserProfileDetail.delete", viewer, pk, 204, NoUrl,
                             <<>>, <<>>, <<>>, NoErrors)
         /\ UNCHANGED <<users, cards, squares, contacts, nextpk, today>>

\* api.permissions.IsUserOrReadOnly.has_object_permission
IsUserOrReadOnly(method, viewer, profile) ==
    \/ method \in SAFE_METHODS
    \/ profiles[profile].user = viewer
    \/ (is_authenticated(viewer) /\ users[viewer].is_staff)

\* serializers.URLField: URLValidator, a scheme is required
serializers_URLField_valid(website) ==
    \/ website = <<>>
    \/ /\ website[1] \in {"http://", "https://"}
       /\ Len(website) > 1
       /\ \A i \in DOMAIN website : website[i] # " "

\* UserProfileViewset.retrieve
UserProfileViewset_retrieve(viewer, pk) ==
    /\ IF pk \notin DOMAIN profiles
       THEN response' = Resp("UserProfileViewset.retrieve", viewer, pk, 404, NoUrl,
                             <<>>, <<>>, <<>>, NoErrors)
       ELSE response' = Resp("UserProfileViewset.retrieve", viewer, pk, 200, NoUrl,
                             <<>>, <<>>, <<pk>>, NoErrors)
    /\ UNCHANGED <<db, today>>

\* a UserProfileViewset.update with IsAuthenticatedOrReadOnly as its only
\* permission
UserProfileViewset_update_any_user(viewer, pk, website, about_me) ==
    IF pk \notin DOMAIN profiles
    THEN /\ response' = Resp("UserProfileViewset.update", viewer, pk, 404, NoUrl,
                             <<>>, <<>>, <<>>, NoErrors)
         /\ UNCHANGED <<db, today>>
    ELSE IF ~IsAuthenticatedOrReadOnly("PUT", viewer)
    THEN /\ response' = Resp("UserProfileViewset.update", viewer, pk, 403, NoUrl,
                             <<>>, <<>>, <<>>, NoErrors)
         /\ UNCHANGED <<db, today>>
    ELSE IF ~serializers_URLField_valid(website)
    THEN /\ response' = Resp("UserProfileViewset.update", viewer, pk, 400, NoUrl,
                             <<>>, <<>>, <<>>, "website")
         /\ UNCHANGED <<db, today>>
    ELSE /\ profiles' = [profiles EXCEPT ![pk].website = website,
                                         ![pk].about_me = about_me]
         /\ response' = Resp("UserProfileViewset.update", viewer, pk, 200, NoUrl,
                             <<>>, <<>>, <<pk>>, NoErrors)
         /\ UNCHANGED <<users, cards, squares, contacts, nextpk, today>>

\* UserProfileViewset.update with UserProfileSerializer (website and
\* about_me are its writable text fields)
UserProfileViewset_update(viewer, pk, website, about_me) ==
    IF pk \notin DOMAIN profiles
    THEN /\ response' = Resp("UserProfileViewset.update", viewer, pk, 404, NoUrl,
                             <<>>, <<>>, <<>>, NoErrors)
         /\ UNCHANGED <<db, today>>
    ELSE IF ~IsAuthenticatedOrReadOnly("PUT", viewer)
            \/ ~IsUserOrReadOnly("PUT", viewer, pk)
    THEN /\ response' = Resp("UserProfileViewset.update", viewer, pk, 403, NoUrl,
                             <<>>, <<>>, <<>>, NoErrors)
         /\ UNCHANGED <<db, today>>
    ELSE IF ~serializers_URLField_valid(website)
    THEN /\ response' = Resp("UserProfileViewset.update", viewer, pk, 400, NoUrl,
                             <<>>, <<>>, <<>>, "website")
         /\ UNCHANGED <<db, today>>
    ELSE /\ profiles' = [profiles EXCEPT ![pk].website = website,
                                         ![pk].about_me = about_me]
         /\ response' = Resp("UserProfileViewset.update", viewer, pk, 200, NoUrl,
                             <<>>, <<>>, <<pk>>, NoErrors)
         /\ UNCHANGED <<users, cards, squares, contacts, nextpk, today>>

\* UserProfileViewset.destroy
UserProfileViewset_destroy(viewer, pk) ==
    IF pk \notin DOMAIN profiles
    THEN /\ response' = Resp("UserProfileViewset.destroy", viewer, pk, 404, NoUrl,
                             <<>>, <<>>, <<>>, NoErrors)
         /\ UNCHANGED <<db, today>>
    ELSE IF ~IsAuthenticatedOrReadOnly("DELETE", viewer)
            \/ ~IsUserOrReadOnly("DELETE", viewer, pk)
    THEN /\ response' = Resp("UserProfileViewset.destroy", viewer, pk, 403, NoUrl,
                             <<>>, <<>>, <<>>, NoErrors)
         /\ UNCHANGED <<db, today>>
    ELSE /\ profiles' = Without(profiles, {pk})
         /\ response' = Resp("UserProfileViewset.destroy", viewer, pk, 204, NoUrl,
                             <<>>, <<>>, <<>>, NoErrors)
         /\ UNCHANGED <<users, cards, squares, contacts, nextpk, today>>

\* UserSerializer validation: the names of the fields with errors
UserSerializer_errors(username, password) ==
    {f \in {"username", "password"} :
        \/ f = "username" /\ \/ username = <<>>
                              \/ ~ValidUsername(username)
                              \/ \E u \in DOMAIN users : users[u].username = username
        \/ f = "password" /\ password = ""}

\* UserViewset.create with UserSerializer.create: create_user (post_save
\* creates the profile), then UserProfile.objects.create for the same user
UserViewset_create(viewer, username, email, password) ==
    LET bad == UserSerializer_errors(username, password)
        u == nextpk.user
        p == nextpk.profile
        ps1 == create_user_profile(profiles, p, u)
        rows == users @@ (u :> User(username, email, make_password(password), FALSE))
    IN /\ nextpk.user <= MaxUsers
       /\ nextpk.profile < MaxProfiles
       /\ IF bad # {}
          THEN /\ response' = Resp("UserViewset.create", viewer, 0, 400, NoUrl,
                                   <<>>, <<>>, <<>>, CHOOSE f \in bad : TRUE)
               /\ UNCHANGED <<db, today>>
          ELSE /\ users' = rows
               /\ IF OneToOne(ps1, u)
                  THEN /\ profiles' = ps1 @@ ((p + 1) :> UserProfile(u))
                       /\ nextpk' = [nextpk EXCEPT !.user = u + 1, !.profile = p + 2]
                       /\ response' = Resp("UserViewset.create", viewer, u, 201,
                                           NoUrl, <<>>, <<>>, <<>>, NoErrors)
                  ELSE /\ profiles' = ps1
                       /\ nextpk' = [nextpk EXCEPT !.user = u + 1, !.profile = p + 1]
                       /\ response' = Resp("UserViewset.create", viewer, 0, 500,
                                           NoUrl, <<>>, <<>>, <<>>, "IntegrityError")
               /\ UNCHANGED <<cards, squares, contacts, today>>

\* api.permissions.IsSelfOrAdmin.has_object_permission
IsSelfOrAdmin(viewer, user) ==
    viewer = user \/ (is_authenticated(viewer) /\ users[viewer].is_staff)

\* UserSerializer validation of a partial update of user pk: the names of
\* the supplied fields with errors
UserSerializer_partial_errors(pk, keys, username, email, password) ==
    {f \in keys :
        \/ f = "username" /\ \/ username = <<>>
                              \/ ~ValidUsername(username)
                              \/ \E u \in DOMAIN users \ {pk} :
                                    users[u].username = username
        \/ f = "email" /\ email # <<>> /\ ~ValidEmail(email)
        \/ f = "password" /\ password = ""}

\* UserSerializer.update: the row of the user after it; validated_data.get
\* of a field that is absent or empty leaves the field as it is
UserSerializer_update(instance, keys, username, email, password) ==
    [instance EXCEPT
        !.username = IF "username" \in keys /\ username # <<>> THEN username ELSE @,
        !.email = IF "email" \in keys /\ email # <<>> THEN email ELSE @,
        !.password = IF "password" \in keys /\ password # ""
                     THEN make_password(password) ELSE @]

\* UserViewset.partial_update; instance.save() runs the receiver
\* save_user_profile, which reads instance.profile
UserViewset_partial_update(viewer, pk, keys, username, email, password) ==
    LET bad == UserSerializer_partial_errors(pk, keys, username, email, password)
    IN IF pk \notin DOMAIN users
       THEN /\ response' = Resp("UserViewset.partial_update", viewer, pk, 404, NoUrl,
                                <<>>, <<>>, <<>>, NoErrors)
            /\ UNCHANGED <<db, today>>
       ELSE IF ~IsSelfOrAdmin(viewer, pk)
       THEN /\ response' = Resp("UserViewset.partial_update", viewer, pk, 403, NoUrl,
                                <<>>, <<>>, <<>>, NoErrors)
            /\ UNCHANGED <<db, today>>
       ELSE IF bad # {}
       THEN /\ response' = Resp("UserViewset.partial_update", viewer, pk, 400, NoUrl,
                                <<>>, <<>>, <<>>, CHOOSE f \in bad : TRUE)
            /\ UNCHANGED <<db, today>>
       ELSE /\ users' = [users EXCEPT
                           ![pk] = UserSerializer_update(@, keys, username, email, password)]
            /\ response' = IF HasProfile(pk)
                           THEN Resp("UserViewset.partial_update", viewer, pk, 200,
                                     NoUrl, <<>>, <<>>, <<>>, NoErrors)
                           ELSE Resp("UserViewset.partial_update", viewer, pk, 500,
                                     NoUrl, <<>>, <<>>, <<>>,
                                     "RelatedObjectDoesNotExist")
            /\ UNCHANGED <<profiles, cards, squares, contacts, nextpk, today>>

\* UserViewset.destroy; on_delete=CASCADE removes the user's profile, the
\* user's cards and their squares
UserViewset_destroy(viewer, pk) ==
    IF pk \notin DOMAIN users
    THEN /\ response' = Resp("UserViewset.destroy", viewer, pk, 404, NoUrl,
                             <<>>, <<>>, <<>>, NoErrors)
         /\ UNCHANGED <<db, today>>
    ELSE IF ~IsSelfOrAdmin(viewer, pk)
    THEN /\ response' = Resp("UserViewset.destroy", viewer, pk, 403, NoUrl,
                             <<>>, <<>>, <<>>, NoErrors)
         /\ UNCHANGED <<db, today>>
    ELSE /\ users' = Without(users, {pk})
         /\ profiles' = Without(profiles, ProfilesOf(profiles, pk))
         /\ DeleteCards({c \in DOMAIN cards : cards[c].creator = pk})
         /\ response' = Resp("UserViewset.destroy", viewer, pk, 204, NoUrl,
                             <<>>, <<>>, <<>>, NoErrors)
         /\ UNCHANGED <<contacts, nextpk, today>>

(***************************************************************************)
(* Contact: home/models.py, ContactAdmin on the admin site, and the        *)
(* contact endpoints of the REST API.                                      *)
(***************************************************************************)
\* a site administrator, as manage.py createsuperuser makes one
createsuperuser(username) ==
    LET u == nextpk.user
        p == nextpk.profile
    IN /\ nextpk.user <= MaxUsers
       /\ nextpk.profile < MaxProfiles
       /\ \A x \in DOMAIN users : users[x].username # username
       /\ users' = users @@ (u :> User(username, <<>>, make_password("s3cret"), TRUE))
       /\ profiles' = create_user_profile(profiles, p, u)
       /\ nextpk' = [nextpk EXCEPT !.user = u + 1, !.profile = p + 1]
       /\ response' = Resp("createsuperuser", Anonymous, u, 0, NoUrl,
                           <<>>, <<>>, <<>>, NoErrors)
       /\ UNCHANGED <<cards, squares, contacts, today>>

\* a Contact row
Contact(title, email) == [title |-> title, email |-> email, contact_date |-> today]

\* title and email are required, email is an EmailField
Contact_is_valid(title, email) == title # "" /\ ValidEmail(email)

\* AdminSite.has_permission
AdminSite_has_permission(viewer) ==
    is_authenticated(viewer) /\ users[viewer].is_staff

\* ContactAdmin add view on bingo_admin_site
ContactAdmin_add(viewer, title, email) ==
    LET pk == nextpk.contact
    IN /\ nextpk.contact <= MaxContacts
       /\ IF ~AdminSite_has_permission(viewer)
          THEN /\ response' = Resp("ContactAdmin.add", viewer, 0, 302,
                                   reverse("admin:login", 0),
                                   <<>>, <<>>, <<>>, NoErrors)
               /\ UNCHANGED <<db, today>>
          ELSE IF ~Contact_is_valid(title, email)
          THEN /\ response' = Resp("ContactAdmin.add", viewer, 0, 200, NoUrl,
                                   <<>>, <<>>, <<>>, "form")
               /\ UNCHANGED <<db, today>>
          ELSE /\ contacts' = contacts @@ (pk :> Contact(title, email))
               /\ nextpk' = [nextpk EXCEPT !.contact = pk + 1]
               /\ response' = Resp("ContactAdmin.add", viewer, pk, 302,
                                   reverse("admin:home_contact_changelist", 0),
                                   <<>>, <<>>, <<>>, NoErrors)
               /\ UNCHANGED <<users, profiles, cards, squares, today>>

\* api.views.ContactList.get
ContactList_get(viewer) ==
    /\ response' = Resp("ContactList.get", viewer, 0, 200, NoUrl,
                        <<>>, <<>>, <<>>, NoErrors)
    /\ UNCHANGED <<db, today>>

\* api.views.ContactList.post (ListCreateAPIView, no permission class)
ContactList_post(viewer, title, email) ==
    LET pk == nextpk.contact
    IN /\ nextpk.contact <= MaxContacts
       /\ IF ~Contact_is_valid(title, email)
          THEN /\ response' = Resp("ContactList.post", viewer, 0, 400, NoUrl,
                                   <<>>, <<>>, <<>>,
                                   IF title = "" THEN "title" ELSE "email")
               /\ UNCHANGED <<db, today>>
          ELSE /\ contacts' = contacts @@ (pk :> Contact(title, email))
               /\ nextpk' = [nextpk EXCEPT !.contact = pk + 1]
               /\ response' = Resp("ContactList.post", viewer, pk, 201, NoUrl,
                                   <<>>, <<>>, <<>>, NoErrors)
               /\ UNCHANGED <<users, profiles, cards, squares, today>>

\* api.views.ContactDetail.put (RetrieveUpdateDestroyAPIView, no permission
\* class)
ContactDetail_put(viewer, pk, title, email) ==
    IF pk \notin DOMAIN contacts
    THEN /\ response' = Resp("ContactDetail.put", viewer, pk, 404, NoUrl,
                             <<>>, <<>>, <<>>, NoErrors)
         /\ UNCHANGED <<db, today>>
    ELSE IF ~Contact_is_valid(title, email)
    THEN /\ response' = Resp("ContactDetail.put", viewer, pk, 400, NoUrl,
                             <<>>, <<>>, <<>>,
                             IF title = "" THEN "title" ELSE "email")
         /\ UNCHANGED <<db, today>>
    ELSE /\ contacts' = [contacts EXCEPT ![pk].title = title, ![pk].email = email]
         /\ response' = Resp("ContactDetail.put", viewer, pk, 200, NoUrl,
                             <<>>, <<>>, <<>>, NoErrors)
         /\ UNCHANGED <<users, profiles, cards, squares, nextpk, today>>

\* api.views.ContactDetail.delete
ContactDetail_delete(viewer, pk) ==
    IF pk \notin DOMAIN contacts
    THEN /\ response' = Resp("ContactDetail.delete", viewer, pk, 404, NoUrl,
                             <<>>, <<>>, <<>>, NoErrors)
         /\ UNCHANGED <<db, today>>
    ELSE /\ contacts' = Without(contacts, {pk})
         /\ response' = Resp("ContactDetail.delete", viewer, pk, 204, NoUrl,
                             <<>>, <<>>, <<>>, NoErrors)
         /\ UNCHANGED <<users, profiles, cards, squares, nextpk, today>>

\* timezone.now moves on
Tick ==
    /\ today < MaxDay
    /\ today' = today + 1
    /\ UNCHANGED <<db, response>>

(***************************************************************************)
(* The requests the specifications draw from.                              *)
(***************************************************************************)
GoodEmail == <<"x", "@", "y">>

\* the usernames registered
Usernames == {<<"a">>, <<"B">>}

\* square texts lists: too few, exactly enough, too many, none, one blank
SquareLists ==
    {Uniform(MinNum - 1, "a"), Uniform(MinNum, "a"), Uniform(MaxNum + 1, "a"),
     <<>>, [Uniform(MinNum, "a") EXCEPT ![1] = ""]}

\* posted square formsets: new forms only (the create page), and the forms of
\* the update page of card c (one initial form per square of c, with its id),
\* with and without the hidden card key
Formsets(c) ==
    {[texts |-> t, initial |-> 0, ids |-> <<>>, fk |-> 0] : t \in SquareLists}
    \cup {[texts |-> Uniform(Cardinality(SquaresOf(squares, c)), "b"),
           initial |-> Cardinality(SquaresOf(squares, c)),
           ids |-> ByPk(SquaresOf(squares, c)), fk |-> k] : k \in {0, c}}

\* the pks a request names: the first square of each card, and no square
SquarePks ==
    {s \in DOMAIN squares :
        \A o \in SquaresOf(squares, squares[s].card) : s <= o} \cup {0}

CardPks == 1..MaxCards

Register ==
    \E name \in Usernames : RegistrationView_post(name, GoodEmail, "s3cret", "s3cret")

\* the creator key a browser posts for the viewer
OwnId(v) == IF v = Anonymous THEN {0} ELSE {v}

(***************************************************************************)
(* Spec: the operations that write cards and squares (web and API).        *)
(***************************************************************************)
Next ==
    \/ Register
    \/ \E v \in Requesters, title \in {"", "t"}, fs \in Formsets(0) :
          \E creator \in OwnId(v) :
             CardCreateView_post(v, title, "f", creator, FALSE, fs)
    \/ \E v \in Requesters, c \in CardPks :
          \E fs \in Formsets(c), creator \in OwnId(v) :
             CardUpdateView_post(v, c, "t", "f", creator, FALSE, fs)
    \/ \E v \in Requesters, sqs \in SquareLists :
          BingoCardList_post(v, {"title", "squares"}, "t", "f", sqs)
    \/ \E v \in Requesters, c \in CardPks, sqs \in SquareLists :
          BingoCardDetail_put(v, c, {"title", "squares"}, "t", "f", sqs)
    \/ \E v \in Requesters, c \in CardPks : BingoCardDetail_delete(v, c)
    \/ \E v \in Requesters, text \in {"", "b"} : BingoCardSquareList_post(v, text)
    \/ \E v \in Requesters, s \in SquarePks, text \in {"", "b"} :
          BingoCardSquareDetail_put(v, s, text)
    \/ \E v \in Requesters, s \in SquarePks : BingoCardSquareDetail_delete(v, s)

Spec == Init /\ [][Next]_vars

(***************************************************************************)
(* SpecCardApi: the card endpoints of the REST API.                        *)
(***************************************************************************)
NextCardApi ==
    \/ Register
    \/ \E v \in Requesters, sqs \in SquareLists :
          BingoCardList_post(v, {"title", "squares"}, "t", "f", sqs)
    \/ \E v \in Requesters, c \in CardPks, sqs \in SquareLists :
          BingoCardDetail_put(v, c, {"title", "squares"}, "t", "f", sqs)
    \/ \E v \in Requesters, c \in CardPks : BingoCardDetail_delete(v, c)
    \/ \E v \in Requesters, c \in CardPks : BingoCardDetail_get(v, c)

SpecCardApi == Init /\ [][NextCardApi]_vars

(***************************************************************************)
(* SpecCardPages: cards of both kinds made on different days, and the      *)
(* pages that show them.                                                   *)
(***************************************************************************)
ValidFormset == [texts |-> Uniform(MinNum, "a"), initial |-> 0, ids |-> <<>>, fk |-> 0]

NextCardPages ==
    \/ Register
    \/ Tick
    \/ \E v \in DOMAIN users \cap {1}, private \in BOOLEAN :
          CardCreateView_post(v, "t", "f", v, private, ValidFormset)
    \/ \E v \in Requesters : CardListView_get(v)
    \/ \E v \in Requesters, c \in CardPks : CardDetailView_get(v, c)

SpecCardPages == Init /\ [][NextCardPages]_vars

(***************************************************************************)
(* SpecProfiles: accounts and their profiles.                              *)
(***************************************************************************)
Websites == {<<>>, <<"w.com">>, <<"w", " ", "w">>}

\* the pks a request names: every profile, and a pk that is no profile
ProfilePks == DOMAIN profiles \cup {nextpk.profile}

NextProfiles ==
    \/ Register
    \/ \E v \in Requesters, name \in Usernames :
          UserViewset_create(v, name, GoodEmail, "s3cret")
    \/ \E v \in Requesters, u \in DOMAIN users : UserViewset_destroy(v, u)
    \/ \E v \in Requesters : LoginRedirectView_get(v)
    \/ \E v \in Requesters, p \in ProfilePks, w \in Websites, private \in BOOLEAN :
          ProfileEditView_post(v, p, w, private, "")
    \/ \E v \in Requesters, p \in ProfilePks : ProfileRedirectView_get(v, p)
    \/ \E v \in Requesters, p \in ProfilePks : UserProfileDetail_delete(v, p)

SpecProfiles == Init /\ [][NextProfiles]_vars

(***************************************************************************)
(* SpecVisibility: private and public cards and profiles, and every page   *)
(* and endpoint that reads them.                                           *)
(***************************************************************************)
NextVisibility ==
    \/ Register
    \/ \E v \in DOMAIN users, private \in BOOLEAN :
          CardCreateView_post(v, "t", "f", v, private, ValidFormset)
    \/ \E v \in DOMAIN users, private \in BOOLEAN :
          ProfileEditView_post(v, 0, <<>>, private, "")
    \/ \E v \in Requesters : CardListView_get(v)
    \/ \E v \in Requesters : MyCardListView_get(v)
    \/ \E v \in Requesters, c \in CardPks : CardDetailView_get(v, c)
    \/ \E v \in Requesters : IndexView_get(v)
    \/ \E v \in Requesters : ProfileListView_get(v)
    \/ \E v \in Requesters, p \in ProfilePks : ProfileView_get(v, p)
    \/ \E v \in Requesters, p \in ProfilePks : ProfileRedirectView_get(v, p)
    \/ \E v \in Requesters : suggest_profiles(v, <<"b">>)
    \/ \E v \in Requesters : BingoCardList_get(v)
    \/ \E v \in Requesters, c \in CardPks : BingoCardDetail_get(v, c)
    \/ \E v \in Requesters : BingoCardSquareList_get(v)
    \/ \E v \in Requesters, s \in SquarePks : BingoCardSquareDetail_get(v, s)
    \/ \E v \in Requesters : UserProfileList_get(v)
    \/ \E v \in Requesters, p \in ProfilePks : UserProfileDetail_get(v, p)

SpecVisibility == Init /\ [][NextVisibility]_vars

(***************************************************************************)
(* SpecListsAndDetails: private and public profiles, private and public    *)
(* cards of the first user, and the lists and detail pages of the site.    *)
(***************************************************************************)
NextListsAndDetails ==
    \/ Register
    \/ \E private \in BOOLEAN :
          CardCreateView_post(1, "t", "f", 1, private, ValidFormset)
    \/ \E v \in DOMAIN users, private \in BOOLEAN :
          ProfileEditView_post(v, 0, <<>>, private, "")
    \/ \E v \in Requesters : CardListView_get(v)
    \/ \E v \in Requesters, c \in CardPks : CardDetailView_get(v, c)
    \/ \E v \in Requesters : IndexView_get(v)
    \/ \E v \in Requesters : ProfileListView_get(v)
    \/ \E v \in Requesters, p \in ProfilePks : ProfileView_get(v, p)
    \/ \E v \in Requesters, p \in ProfilePks : ProfileRedirectView_get(v, p)
    \/ \E v \in Requesters : BingoCardList_get(v)
    \/ \E v \in Requesters : UserProfileList_get(v)

SpecListsAndDetails == Init /\ [][NextListsAndDetails]_vars

(***************************************************************************)
(* SpecProfileApi: users, an administrator, and the profile viewset.       *)
(***************************************************************************)
ApiWebsites == {<<>>, <<"http://", "w.com">>, <<"w.com">>}

NextProfileApi ==
    \/ Register
    \/ createsuperuser(<<"r", "o", "o", "t">>)
    \/ \E v \in Requesters, p \in ProfilePks : UserProfileViewset_retrieve(v, p)
    \/ \E v \in Requesters, p \in ProfilePks, w \in ApiWebsites :
          UserProfileViewset_update(v, p, w, "hi")
    \/ \E v \in Requesters, p \in ProfilePks : UserProfileViewset_destroy(v, p)

SpecProfileApi == Init /\ [][NextProfileApi]_vars

(***************************************************************************)
(* SpecAccounts: registration with good and bad form data, and partial     *)
(* updates of users through the API.                                       *)
(***************************************************************************)
RegUsernames == {<<"a">>, <<"B">>, <<"a", " ", "b">>}

RegEmails == {GoodEmail, <<"x">>}

RegPasswords == {"s3cret", "password"}

RegConfirmations == {"s3cret", "password", ""}

PatchKeys == {{"username"}, {"email"}, {"password"}, {"username", "email"}}

NextAccounts ==
    \/ \E name \in RegUsernames, email \in RegEmails, password \in RegPasswords,
          confirmation \in RegConfirmations :
          RegistrationView_post(name, email, password, confirmation)
    \/ \E v \in Requesters, u \in DOMAIN users, keys \in PatchKeys,
          name \in {<<"a">>, <<"c">>}, email \in {<<>>, <<"z", "@", "y">>} :
          UserViewset_partial_update(v, u, keys, name, email, "n3w")

SpecAccounts == Init /\ [][NextAccounts]_vars

(***************************************************************************)
(* SpecCardSerializer: cards created and updated through the API with      *)
(* different texts in their squares, with and without a free space.        *)
(***************************************************************************)
\* 24 texts "a" with one "b" at the back
MixedBack == [Uniform(SerializerSquares, "a") EXCEPT ![SerializerSquares] = "b"]

ApiSquareLists == {Uniform(SerializerSquares, "a"), MixedBack,
                   Uniform(SerializerSquares - 1, "a")}

CreateKeys == {{"title", "squares"}, {"title", "squares", "free_space"}}

PartialKeys == {{"title"}, {"squares"}}

NextCardSerializer ==
    \/ Register
    \/ \E v \in {Anonymous} \cup (DOMAIN users \cap {1}), keys \in CreateKeys,
          sqs \in ApiSquareLists :
          BingoCardList_post(v, keys, "t", "f", sqs)
    \/ \E v \in Requesters, c \in CardPks, sqs \in ApiSquareLists :
          BingoCardDetail_put(v, c, {"title", "squares"}, "t", "f", sqs)
    \/ \E v \in Requesters, c \in CardPks, keys \in PartialKeys,
          sqs \in ApiSquareLists :
          BingoCardDetail_patch(v, c, keys, "u", "g", sqs)

SpecCardSerializer == Init /\ [][NextCardSerializer]_vars

(***************************************************************************)
(* SpecCardUpdate: cards made on the create page and posts to the update   *)
(* page with valid and invalid forms and formsets.                         *)
(***************************************************************************)
NextCardUpdate ==
    \/ Register
    \/ \E v \in DOMAIN users :
          CardCreateView_post(v, "t", "f", v, FALSE, ValidFormset)
    \/ \E c \in CardPks :
          \E fs \in Formsets(c), v \in Requesters, title \in {"", "u"} :
             \E creator \in OwnId(v) :
                CardUpdateView_post(v, c, title, "g", creator, TRUE, fs)

SpecCardUpdate == Init /\ [][NextCardUpdate]_vars

(***************************************************************************)
(* SpecProfileForm: ProfileEditForm.save called for users with and without *)
(* a profile, with filled and with empty fields.                           *)
(***************************************************************************)
FormWebsites == {<<>>, <<"w.com">>, <<"w", " ", "w">>}

NextProfileForm ==
    \/ Register
    \/ \E v \in Requesters, p \in ProfilePks : UserProfileDetail_delete(v, p)
    \/ \E u \in 1..MaxUsers, w \in FormWebsites, private \in BOOLEAN,
          about_me \in {"", "bio"} :
          ProfileEditForm_save_call(u, w, private, about_me)

SpecProfileForm == Init /\ [][NextProfileForm]_vars

(***************************************************************************)
(* SpecCardCreators: cards created on the create page, whose form has a    *)
(* creator field, and through the API.                                     *)
(***************************************************************************)
NextCardCreators ==
    \/ Register
    \/ \E v \in Requesters, creator \in 1..MaxUsers, private \in BOOLEAN :
          CardCreateView_post(v, "t", "f", creator, private, ValidFormset)
    \/ \E v \in Requesters, keys \in CreateKeys :
          BingoCardList_post(v, keys, "t", "f", Uniform(SerializerSquares, "a"))

SpecCardCreators == Init /\ [][NextCardCreators]_vars

(***************************************************************************)
(* SpecIntegrity: users, their profiles, cards and squares, and the        *)
(* deletes of users, cards and profiles.                                   *)
(***************************************************************************)
NextIntegrity ==
    \/ Register
    \/ \E v \in DOMAIN users, creator \in 1..MaxUsers :
          CardCreateView_post(v, "t", "f", creator, FALSE, ValidFormset)
    \/ \E v \in Requesters, c \in CardPks : BingoCardDetail_delete(v, c)
    \/ \E v \in Requesters, u \in 1..MaxUsers : UserViewset_destroy(v, u)
    \/ \E v \in Requesters, p \in ProfilePks : UserProfileDetail_delete(v, p)

SpecIntegrity == Init /\ [][NextIntegrity]_vars

(***************************************************************************)
(* SpecContact: the site's accounts and every operation on Contact.        *)
(***************************************************************************)
ContactPks == 1..MaxContacts

NextContact ==
    \/ Register
    \/ createsuperuser(<<"r", "o", "o", "t">>)
    \/ \E v \in Requesters, title \in {"", "c"} : ContactAdmin_add(v, title, GoodEmail)
    \/ \E v \in Requesters : ContactList_get(v)
    \/ \E v \in Requesters, title \in {"", "c"} : ContactList_post(v, title, GoodEmail)
    \/ \E v \in Requesters, k \in ContactPks, title \in {"", "d"} :
          ContactDetail_put(v, k, title, GoodEmail)
    \/ \E v \in Requesters, k \in ContactPks : ContactDetail_delete(v, k)

SpecContact == Init /\ [][NextContact]_vars

(***************************************************************************)
(* The properties.                                                         *)
(***************************************************************************)
\* C1: in every reachable state of the card operations, every stored card
\* has exactly 24 squares
C1_EveryCardHas24Squares ==
    \A c \in DOMAIN cards : Cardinality(SquaresOf(squares, c)) = 24

\* C2: validate_squares accepts a list exactly when it has 24 items; an
\* authenticated API create whose items are all non-blank answers 201 and
\* stores the card with its 24 squares when the list has 24 items, and
\* otherwise answers 400 with 'Must have exactly 24 squares' on 'squares'
\* and leaves the cards and the squares as they were
C2_ValidateSquares ==
    [][\A v \in DOMAIN users, sqs \in SquareLists :
          /\ (validate_squares(sqs) = NoErrors) <=> (Len(sqs) = 24)
          /\ (validate_squares(sqs) # NoErrors) => (validate_squares(sqs) = MustHave24)
          /\ ( /\ BingoCardList_post(v, {"title", "squares"}, "t", "f", sqs)
               /\ \A i \in DOMAIN sqs : sqs[i] # "" )
             => IF Len(sqs) = 24
                THEN /\ response'.status = 201
                     /\ DOMAIN cards' = DOMAIN cards \cup {response'.pk}
                     /\ Cardinality(SquaresOf(squares', response'.pk)) = 24
                ELSE /\ response'.status = 400
                     /\ response'.errors.squares = MustHave24
                     /\ cards' = cards
                     /\ squares' = squares]_vars

\* C2, witness: an API create was refused for the number of its squares
C2_Witness ==
    /\ response.view = "BingoCardList.post"
    /\ response.status = 400
    /\ response.errors.squares = MustHave24

\* C3: after a POST to the create view that saved a card, the card has all
\* 24 of its squares
C3_CreateIsAllOrNothing ==
    (response.view = "CardCreateView.post" /\ response.pk \in DOMAIN cards)
        => Cardinality(SquaresOf(squares, response.pk)) = 24

\* C4: no answer to a visitor who is not logged in, on any page or endpoint
\* that reads cards, squares or profiles, carries a private card, a square
\* of a private card, or a private profile
C4_NoPrivateToVisitors ==
    ( /\ response.viewer = Anonymous
      /\ response.view \in {"CardListView.get", "CardDetailView.get", "IndexView.get",
                            "ProfileListView.get", "ProfileView.get", "suggest_profiles",
                            "BingoCardList.get", "BingoCardDetail.get",
                            "BingoCardSquareList.get", "BingoCardSquareDetail.get",
                            "UserProfileList.get", "UserProfileDetail.get"} )
    => /\ \A i \in DOMAIN response.cards : ~cards[response.cards[i]].private
       /\ \A i \in DOMAIN response.squares :
             ~cards[squares[response.squares[i]].card].private
       /\ \A i \in DOMAIN response.profiles : ~profiles[response.profiles[i]].private

C6_ProfileRedirect ==
    response.view = "ProfileRedirectView.get" =>
        IF ~is_authenticated(response.viewer)
        THEN response.url = ProfileLoginUrl
        ELSE response.pk \in DOMAIN profiles =>
                response.url =
                    IF /\ profiles[response.pk].private
                       /\ profiles[response.pk].user # response.viewer
                    THEN reverse("auth_extension:permission_denied", 0)
                    ELSE reverse("auth_extension:profile_view", response.pk)

\* C7: the Contact table changes only in a step taken for a site
\* administrator
C7_OnlyAdminsChangeContacts ==
    [][contacts' # contacts => AdminSite_has_permission(response'.viewer)]_vars

\* C8: in every reachable state no user has more than one profile, and the
\* user of every profile is a stored user
C8_ProfilesOneToOne ==
    /\ \A u \in DOMAIN users : Cardinality(ProfilesOf(profiles, u)) <= 1
    /\ \A p \in DOMAIN profiles : profiles[p].user \in DOMAIN users

\* C8, witness: a profile that was deleted and made again on login, and a
\* profile edit just saved
C8_Witness ==
    /\ response.view = "ProfileEditView.post"
    /\ response.status = 302
    /\ \E p \in DOMAIN profiles : profiles[p].user < p

\* C9: the card list shows an authenticated requester every card and any
\* other requester exactly the cards that are not private, each once, the
\* most recently created first
C9_CardList ==
    response.view = "CardListView.get" =>
        /\ {response.cards[i] : i \in DOMAIN response.cards}
             = IF is_authenticated(response.viewer)
               THEN DOMAIN cards
               ELSE {c \in DOMAIN cards : cards[c].private = FALSE}
        /\ \A i, j \in DOMAIN response.cards :
              /\ i < j => cards[response.cards[i]].created_date
                            >= cards[response.cards[j]].created_date
              /\ i # j => response.cards[i] # response.cards[j]

\* C9, witness: the list was served to a visitor while a private card and
\* two cards of different days were stored
C9_Witness ==
    /\ response.view = "CardListView.get"
    /\ response.viewer = Anonymous
    /\ response.cards # <<>>
    /\ \E c \in DOMAIN cards : cards[c].private
    /\ \E c, d \in DOMAIN cards : cards[c].created_date # cards[d].created_date

\* C10: the detail page of a private card answers a visitor with a redirect
\* to 'auth_extension:unauthorized' and shows nothing of the card; every other
\* request for a stored card renders it with status 200
C10_CardDetail ==
    (response.view = "CardDetailView.get" /\ response.pk \in DOMAIN cards) =>
        IF cards[response.pk].private /\ ~is_authenticated(response.viewer)
        THEN /\ response.status = 302
             /\ response.url = reverse("auth_extension:unauthorized", 0)
             /\ response.cards = <<>>
             /\ response.squares = <<>>
        ELSE /\ response.status = 200
             /\ response.cards = <<response.pk>>

\* C10, witness: a visitor asked for a private card
C10_Witness ==
    /\ response.view = "CardDetailView.get"
    /\ response.pk \in DOMAIN cards
    /\ cards[response.pk].private
    /\ response.viewer = Anonymous

\* C11: the profile list shows a logged-in requester every profile, and a
\* requester who is not logged in exactly the profiles that are not private
\* (the first page, which holds them all while there are at most paginate_by)
C11_ProfileList ==
    ( /\ response.view = "ProfileListView.get"
      /\ Cardinality(DOMAIN profiles) <= ProfilePaginateBy )
    => {response.profiles[i] : i \in DOMAIN response.profiles}
         = IF is_authenticated(response.viewer)
           THEN DOMAIN profiles
           ELSE {p \in DOMAIN profiles : profiles[p].private = FALSE}

\* C11, witness: the list was served to a visitor while a private and a
\* public profile were stored
C11_Witness ==
    /\ response.view = "ProfileListView.get"
    /\ response.viewer = Anonymous
    /\ response.profiles # <<>>
    /\ \E p \in DOMAIN profiles : profiles[p].private

C14_UserSerializerCreate ==
    [][ \A v \in Requesters, name \in Usernames :
           ( /\ UserSerializer_errors(name, "s3cret") = {}
             /\ UserViewset_create(v, name, GoodEmail, "s3cret") )
           => /\ response'.status = 201
              /\ DOMAIN users' = DOMAIN users \cup {nextpk.user}
              /\ users'[nextpk.user].password.hashed
              /\ Cardinality(ProfilesOf(profiles', nextpk.user)) = 1 ]_vars

\* C15: RegistrationForm.save on valid data completes without error, and
\* leaves a user with the submitted username and email and a profile of
\* that user
C15_RegistrationFormSave ==
    [][ \A name \in Usernames :
           ( /\ RegistrationForm_field_errors(name, GoodEmail, "s3cret", "s3cret") = {}
             /\ RegistrationView_post(name, GoodEmail, "s3cret", "s3cret") )
           => /\ response'.errors = NoErrors
              /\ nextpk.user \in DOMAIN users'
              /\ users'[nextpk.user].username = name
              /\ users'[nextpk.user].email = GoodEmail
              /\ ProfilesOf(profiles', nextpk.user) # {} ]_vars

\* C16: a registration POST with an invalid username, an invalid email, a
\* confirmation that differs from the password, or a too-common password
\* leaves the users as they were and is answered with the form, status 200,
\* and an error
C16_RejectedRegistration ==
    [][ \A name \in RegUsernames, email \in RegEmails, password \in RegPasswords,
           confirmation \in RegConfirmations :
           ( /\ \/ ~ValidUsername(name)
                \/ ~ValidEmail(email)
                \/ password # confirmation
                \/ password \in CommonPasswords
             /\ RegistrationView_post(name, email, password, confirmation) )
           => /\ users' = users
              /\ response'.status = 200
              /\ response'.errors # NoErrors ]_vars

\* C17: a partial update of a user with valid data sets exactly the
\* supplied fields among username, email and password, the password hashed,
\* and leaves the other fields, the pk and the profile as they were
C17_UserSerializerUpdate ==
    [][ \A v \in Requesters, u \in DOMAIN users, keys \in PatchKeys,
           name \in {<<"a">>, <<"c">>}, email \in {<<>>, <<"z", "@", "y">>} :
           ( /\ IsSelfOrAdmin(v, u)
             /\ UserSerializer_partial_errors(u, keys, name, email, "n3w") = {}
             /\ UserViewset_partial_update(v, u, keys, name, email, "n3w") )
           => /\ DOMAIN users' = DOMAIN users
              /\ users'[u].username = IF "username" \in keys THEN name
                                      ELSE users[u].username
              /\ users'[u].email = IF "email" \in keys THEN email
                                   ELSE users[u].email
              /\ users'[u].password = IF "password" \in keys
                                      THEN make_password("n3w")
                                      ELSE users[u].password
              /\ profiles' = profiles ]_vars

\* C18: a valid POST of a card creates exactly one new card with the given
\* title and the requester as creator, free_space the supplied value or
\* 'Free Space' when none is supplied, and one new square per supplied
\* square, in order, with the supplied text and linked to the new card; the
\* cards and squares that existed are as they were
C18_SerializerCreate ==
    [][ \A v \in DOMAIN users, keys \in CreateKeys, sqs \in ApiSquareLists :
           ( /\ response'.view = "BingoCardList.post"
             /\ response'.viewer = v
             /\ BingoCardSerializer_errors(keys, "t", "f", sqs) = NoFieldErrors
             /\ BingoCardList_post(v, keys, "t", "f", sqs) )
           => \E pk \in DOMAIN cards' \ DOMAIN cards :
                 LET new == ByPk(DOMAIN squares' \ DOMAIN squares)
                 IN /\ DOMAIN cards' = DOMAIN cards \cup {pk}
                    /\ cards'[pk].title = "t"
                    /\ cards'[pk].creator = v
                    /\ cards'[pk].free_space = IF "free_space" \in keys THEN "f"
                                               ELSE "Free Space"
                    /\ Len(new) = Len(sqs)
                    /\ Len(new) = 24
                    /\ \A i \in DOMAIN new : /\ squares'[new[i]].text = sqs[i]
                                             /\ squares'[new[i]].card = pk
                    /\ \A c \in DOMAIN cards : cards'[c] = cards[c]
                    /\ \A s \in DOMAIN squares :
                          s \in DOMAIN squares' /\ squares'[s] = squares[s] ]_vars

\* a card stands whose free space was supplied, beside one created without
\* a free space, and one of them has squares of different texts
C18_Witness ==
    /\ response.view = "BingoCardList.post"
    /\ response.status = 201
    /\ \E c, d \in DOMAIN cards :
          /\ cards[c].free_space = "f"
          /\ cards[d].free_space = "Free Space"
    /\ \E s, t \in DOMAIN squares :
          squares[s].card = squares[t].card /\ squares[s].text # squares[t].text

\* C19: a valid update of a card keeps the card's squares (same pks, same
\* number, none created or deleted); afterwards the i-th square of the card
\* carries the i-th submitted text, a square whose submitted text equals
\* the stored text is as it was, and so is every square of another card
C19_SerializerUpdate ==
    [][ \A v \in DOMAIN users, c \in DOMAIN cards, sqs \in ApiSquareLists :
           ( /\ response'.view = "BingoCardDetail.put"
             /\ response'.viewer = v /\ response'.pk = c
             /\ IsOwnerOrReadOnly("PUT", v, c)
             /\ BingoCardSerializer_errors({"title", "squares"}, "t", "f", sqs)
                   = NoFieldErrors
             /\ BingoCardDetail_put(v, c, {"title", "squares"}, "t", "f", sqs) )
           => LET own == ByPk(SquaresOf(squares, c))
              IN /\ DOMAIN squares' = DOMAIN squares
                 /\ SquaresOf(squares', c) = SquaresOf(squares, c)
                 /\ \A i \in DOMAIN own :
                       /\ squares'[own[i]].text = sqs[i]
                       /\ squares[own[i]].text = sqs[i]
                             => squares'[own[i]] = squares[own[i]]
                 /\ \A s \in DOMAIN squares :
                       squares[s].card # c => squares'[s] = squares[s] ]_vars

\* an update has just been applied to a card of 24 squares whose last
\* square carries another text than its first
C19_Witness ==
    /\ response.view = "BingoCardDetail.put"
    /\ response.status = 200
    /\ LET own == ByPk(SquaresOf(squares, response.pk))
       IN /\ Len(own) = 24
          /\ squares[own[24]].text = "b"
          /\ squares[own[1]].text = "a"

\* C20: a partial update by the creator with valid data holding any subset
\* of the card's fields is applied: it succeeds, sets the supplied card
\* fields and leaves the other fields and, when no squares are supplied,
\* all squares as they were
C20_PartialUpdate ==
    [][ \A v \in DOMAIN users, c \in DOMAIN cards, keys \in PartialKeys,
           sqs \in ApiSquareLists :
           ( /\ IsOwnerOrReadOnly("PATCH", v, c)
             /\ BingoCardSerializer_partial_errors(keys, "u", "g", sqs)
                   = NoFieldErrors
             /\ BingoCardDetail_patch(v, c, keys, "u", "g", sqs) )
           => /\ response'.status = 200
              /\ cards'[c] = BingoCardSerializer_update(cards[c], keys, "u", "g")
              /\ "squares" \notin keys => squares' = squares ]_vars

\* C21: a valid POST to CardUpdateView for card pk updates that card in
\* place: the cards are the same in number, the card pk has the posted
\* title, free_space and private, and no square is added
C21_UpdateInPlace ==
    [][ \A c \in DOMAIN cards :
           \A fs \in Formsets(c), v \in DOMAIN users :
              ( /\ response'.view = "CardUpdateView.post"
                /\ response'.viewer = v /\ response'.pk = c
                /\ BingoCardForm_is_valid("u", "g", v)
                /\ BingoSquareFormset_is_valid(fs)
                /\ CardUpdateView_post(v, c, "u", "g", v, TRUE, fs) )
              => /\ DOMAIN cards' = DOMAIN cards
                 /\ cards'[c].title = "u"
                 /\ cards'[c].free_space = "g"
                 /\ cards'[c].private = TRUE
                 /\ DOMAIN squares' = DOMAIN squares ]_vars

\* C22: a POST to CardUpdateView by a logged-in user whose card form or
\* square formset is invalid creates, changes and deletes no card and no
\* square, and is answered with the page (200), not with a redirect
C22_InvalidUpdateRejected ==
    [][ \A c \in CardPks :
           \A fs \in Formsets(c), v \in DOMAIN users, title \in {"", "u"} :
              ( /\ response'.view = "CardUpdateView.post"
                /\ response'.viewer = v /\ response'.pk = c
                /\ ~( /\ BingoCardForm_is_valid(title, "g", v)
                      /\ BingoSquareFormset_is_valid(fs) )
                /\ CardUpdateView_post(v, c, title, "g", v, TRUE, fs) )
              => /\ cards' = cards
                 /\ squares' = squares
                 /\ response'.status = 200
                 /\ response'.url = NoUrl ]_vars

\* a logged-in user's POST to the update page of a card that exists has
\* just been answered with the page and its errors
C22_Witness ==
    /\ response.view = "CardUpdateView.post"
    /\ response.viewer \in DOMAIN users
    /\ response.pk \in DOMAIN cards
    /\ response.status = 200
    /\ response.errors = "form"

\* C23: LoginRedirectView sends a visitor who is not logged in to the login
\* page and creates no profile; it sends a logged-in user to the edit page
\* of their own profile, and when the user has no profile it first creates
\* exactly one profile of that user and sends the user to its edit page
C23_LoginRedirect ==
    [][ \A v \in Requesters :
           ( /\ response'.view = "LoginRedirectView.get"
             /\ response'.viewer = v
             /\ LoginRedirectView_get(v) )
           => IF v = Anonymous
              THEN /\ response'.url = reverse("registration:auth_login", 0)
                   /\ profiles' = profiles
              ELSE \E p \in DOMAIN profiles' :
                      /\ response'.url = reverse("auth_extension:profile_edit", p)
                      /\ ProfilesOf(profiles', v) = {p}
                      /\ \A q \in DOMAIN profiles : /\ q \in DOMAIN profiles'
                                                    /\ profiles'[q] = profiles[q]
                      /\ DOMAIN profiles' \ DOMAIN profiles =
                            IF HasProfile(v) THEN {} ELSE {p} ]_vars

\* the only user ever created has been sent to the edit page of profile 2:
\* the profile made at registration was deleted, and the view made another
C23_Witness ==
    /\ response.view = "LoginRedirectView.get"
    /\ response.viewer = 1
    /\ nextpk.user = 2
    /\ response.url = reverse("auth_extension:profile_edit", 2)
    /\ 2 \in DOMAIN profiles
    /\ profiles[2].user = 1

\* C24: the detail page of a card of 24 squares has in context['squares']
\* 25 entries, the free space of the card at index 12 (the 13th entry) and
\* around it every square of the card exactly once, in shuffled order: the
\* order random.shuffle left them in
C24_ShuffledSquares ==
    ( /\ response.view = "CardDetailView.get"
      /\ response.status = 200
      /\ Cardinality(SquaresOf(squares, response.pk)) = 24 )
    => /\ Len(response.context) = 25
       /\ response.context[13] = ContextFreeSpace(cards[response.pk].free_space)
       /\ \A s \in SquaresOf(squares, response.pk) :
             Cardinality({i \in DOMAIN response.context :
                             response.context[i] = ContextSquare(s)}) = 1
       /\ \A i \in 1..12 : response.context[i].square = response.shuffled[i]
       /\ \A i \in 13..24 : response.context[i + 1].square = response.shuffled[i]

\* C25 as stated: ProfileEditForm.save(pk) on valid data updates or creates
\* the one profile of user pk, and afterwards its website, private and
\* about_me equal the submitted values; an invalid form changes nothing and
\* returns the errors
C25_SubmittedValuesStored ==
    [][ \A u \in DOMAIN users, w \in FormWebsites, private \in BOOLEAN,
           about_me \in {"", "bio"} :
           ( /\ response'.view = "ProfileEditForm.save"
             /\ response'.pk = u
             /\ ProfileEditForm_save_call(u, w, private, about_me) )
           => IF URLField_valid(w)
              THEN \E p \in DOMAIN profiles' :
                      /\ ProfilesOf(profiles', u) = {p}
                      /\ HasProfile(u) => p = ProfileOf(profiles, u)
                      /\ profiles'[p].website = w
                      /\ profiles'[p].private = private
                      /\ profiles'[p].about_me = about_me
              ELSE /\ profiles' = profiles
                   /\ response'.errors = "website" ]_vars

\* C25, amended: ProfileEditForm.save(pk) on valid data updates or creates
\* the one profile of user pk; afterwards private equals the submitted
\* value, and website and about_me equal the cleaned submitted values when
\* these are not empty and are what they were (empty in a new profile) when
\* they are empty; an invalid form changes nothing and returns the errors
C25_FilledValuesStored ==
    [][ \A u \in DOMAIN users, w \in FormWebsites, private \in BOOLEAN,
           about_me \in {"", "bio"} :
           ( /\ response'.view = "ProfileEditForm.save"
             /\ response'.pk = u
             /\ ProfileEditForm_save_call(u, w, private, about_me) )
           => IF URLField_valid(w)
              THEN \E p \in DOMAIN profiles' :
                      LET old == IF HasProfile(u)
                                 THEN profiles[ProfileOf(profiles, u)]
                                 ELSE [website |-> <<>>, about_me |-> ""]
                      IN /\ ProfilesOf(profiles', u) = {p}
                         /\ HasProfile(u) => p = ProfileOf(profiles, u)
                         /\ profiles'[p].private = private
                         /\ profiles'[p].website =
                               IF w = <<>> THEN old.website
                               ELSE IF w[1] \in {"http://", "https://"} THEN w
                               ELSE <<"http://">> \o w
                         /\ profiles'[p].about_me =
                               IF about_me = "" THEN old.about_me ELSE about_me
                         /\ \A q \in DOMAIN profiles \ {p} :
                               q \in DOMAIN profiles' /\ profiles'[q] = profiles[q]
              ELSE /\ profiles' = profiles
                   /\ response'.errors = "website" ]_vars

\* a save with valid data has just made profile 2 for the only user ever
\* registered, whose first profile had been deleted
C25_Witness ==
    /\ response.view = "ProfileEditForm.save"
    /\ response.errors = NoErrors
    /\ response.pk = 1
    /\ nextpk.user = 2
    /\ 2 \in DOMAIN profiles
    /\ profiles[2].user = 1
    /\ profiles[2].website # <<>>

\* C26: a request of a logged-in user who is not the creator of a card
\* leaves the card as it was: its row (title, free_space, private,
\* creator), the set of its squares and the text of each of them
C26_OnlyCreatorChangesCard ==
    [][ \A c \in DOMAIN cards :
           ( /\ is_authenticated(response'.viewer)
             /\ response'.viewer # cards[c].creator )
           => /\ c \in DOMAIN cards'
              /\ cards'[c] = cards[c]
              /\ SquaresOf(squares', c) = SquaresOf(squares, c)
              /\ \A s \in SquaresOf(squares, c) : squares'[s] = squares[s] ]_vars

\* C27: every card a request creates has the logged-in user who made the
\* request as its creator, whatever creator the submitted data names
C27_CreatorIsRequester ==
    [][ \A c \in DOMAIN cards' \ DOMAIN cards :
           /\ is_authenticated(response'.viewer)
           /\ cards'[c].creator = response'.viewer ]_vars

\* C28: a POST to ProfileEditView changes only the profile of the user who
\* makes the request: whatever pk the URL names, the profiles of the other
\* users are as they were and no profile of another user appears, and a
\* POST of a visitor who is not logged in changes no profile
C28_EditOnlyOwnProfile ==
    [][ \A v \in Requesters, p \in ProfilePks, w \in Websites, private \in BOOLEAN :
           ( /\ response'.view = "ProfileEditView.post"
             /\ response'.viewer = v
             /\ ProfileEditView_post(v, p, w, private, "") )
           => /\ \A q \in DOMAIN profiles :
                    profiles[q].user # v
                    => q \in DOMAIN profiles' /\ profiles'[q] = profiles[q]
              /\ \A q \in DOMAIN profiles' \ DOMAIN profiles : profiles'[q].user = v
              /\ v = Anonymous => profiles' = profiles ]_vars

\* a logged-in user's valid POST to the edit URL of another user's profile
\* has been saved: the requester's own profile is now private and has the
\* posted website
C28_Witness ==
    /\ response.view = "ProfileEditView.post"
    /\ response.status = 302
    /\ response.url = reverse("auth_extension:login_redirect", 0)
    /\ response.pk \in DOMAIN profiles
    /\ profiles[response.pk].user # response.viewer
    /\ \E q \in ProfilesOf(profiles, response.viewer) :
          profiles[q].private /\ profiles[q].website # <<>>

\* C29: the detail page of a private profile (ProfileView) is never
\* rendered to a logged-in user who is not the owner of the profile
C29_PrivateProfileGate ==
    ( /\ response.view = "ProfileView.get"
      /\ response.status = 200
      /\ is_authenticated(response.viewer)
      /\ response.pk \in DOMAIN profiles
      /\ profiles[response.pk].private )
    => profiles[response.pk].user = response.viewer

\* C30: after every step no profile and no card refers to a missing user
\* and no square to a missing card; a step that deletes a user deletes the
\* user's profile and every card the user created, and a step that deletes
\* a card deletes all of its squares
C30_ReferentialIntegrity ==
    [][ /\ \A p \in DOMAIN profiles' : profiles'[p].user \in DOMAIN users'
        /\ \A c \in DOMAIN cards' : cards'[c].creator \in DOMAIN users'
        /\ \A s \in DOMAIN squares' : squares'[s].card \in DOMAIN cards'
        /\ \A u \in DOMAIN users \ DOMAIN users' :
              /\ \A p \in ProfilesOf(profiles, u) : p \notin DOMAIN profiles'
              /\ \A c \in DOMAIN cards :
                    cards[c].creator = u => c \notin DOMAIN cards'
        /\ \A c \in DOMAIN cards \ DOMAIN cards' :
              \A s \in SquaresOf(squares, c) : s \notin DOMAIN squares' ]_vars

\* a user has just been deleted, after a profile and a card had been made,
\* and no user, profile, card or square is left
C30_Witness ==
    /\ response.view = "UserViewset.destroy"
    /\ response.status = 204
    /\ nextpk.card > 1
    /\ nextpk.profile > 1
    /\ users = <<>>
    /\ profiles = <<>>
    /\ cards = <<>>
    /\ squares = <<>>

====
